---- MODULE Spec2Model ----
(***************************************************************************)
(* Model of the search engine: the initial index build, the incremental    *)
(* indexer that runs in a worker thread (appendIndex.js), the worker       *)
(* manager and the /admin/index route, and the query engine with its       *)
(* caches (searchEngine.js with semantic expansion).                       *)
(*                                                                         *)
(* Conventions of the model:                                               *)
(*  - a text is the sequence of its maximal lowercase-letter runs, that is *)
(*    what text.toLowerCase().match(/[a-z]+/g) returns; <<>> is a missing  *)
(*    or empty text and NonString a truthy value that is not a string;     *)
(*  - a JS Map or object is a function; where the code depends on the      *)
(*    insertion order of a Map the model keeps a sequence of entries;      *)
(*  - WordIDs are integers: lexicon.json holds them as numbers (initial    *)
(*    build) or decimal strings (incremental indexer) and every use goes   *)
(*    through parseInt, % or String, which agree on both forms;            *)
(*  - document IDs are JSON values: a string, or a number written "#n",    *)
(*    whose object key (DocKey) is "n";                                    *)
(*  - scores are kept in hundredths (an integer), rounding of IEEE doubles *)
(*    is not modelled;                                                     *)
(*  - null / undefined is <<>> and a present value x is <<x>> for the      *)
(*    module-level state of the query engine.                              *)
(***************************************************************************)
EXTENDS Integers, Sequences, FiniteSets, TLC

\* ------------------------------------------------------------------------
\* Configuration constants of the program
\* ------------------------------------------------------------------------
NUM_BARRELS == 64
MIN_WORD_LENGTH == 3
MIN_TOKEN_LENGTH == 3
MAX_AUTOCOMPLETE_SUGGESTIONS == 10
MAX_SYNONYMS == 3
maxSpan == 500

STOP_WORDS ==
    {"a", "an", "and", "are", "as", "at", "be", "but", "by",
     "for", "if", "in", "is", "it", "no", "not", "of", "on",
     "or", "such", "that", "the", "their", "then", "there",
     "these", "they", "this", "to", "was", "will", "with",
     "from", "which", "can", "we", "i", "my", "your", "its",
     "all", "our"}

FIELD_TYPES == [TITLE |-> 1, ABSTRACT |-> 2, CATEGORIES |-> 3, AUTHORS |-> 4, SUBMITTER |-> 5]

FIELD_WEIGHTS == <<5, 1, 3, 1, 1>>

\* ------------------------------------------------------------------------
\* Generic helpers
\* ------------------------------------------------------------------------
EmptyMap == <<>>

\* map.get(k) || dflt
GetOr(map, k, dflt) == IF k \in DOMAIN map THEN map[k] ELSE dflt

\* map.set(k, v) / obj[k] = v
Put(map, k, v) == (k :> v) @@ map

\* { ...a, ...b }
Spread(a, b) == b @@ a

\* TLC passes operator arguments unevaluated; comparing an accumulator with
\* itself evaluates it, which keeps the evaluation depth of a loop bounded
\* by the length of one list.  Strict(v) is always TRUE.
Strict(v) == v = v

SetMax(S) == CHOOSE x \in S : \A y \in S : y <= x
SetMin(S) == CHOOSE x \in S : \A y \in S : x <= y

\* The integer-like keys of a JS object are enumerated in ascending numeric order.
AscendingKeys(S) ==
    [i \in 1..Cardinality(S) |-> CHOOSE x \in S : Cardinality({y \in S : y < x}) = i - 1]

\* ------------------------------------------------------------------------
\* Articles
\* ------------------------------------------------------------------------
NonString == <<"#nonstring">>
NoId == ""
NumericIds == {"#7"}

\* The property key a document ID becomes in docStore / forwardIndex
\* (String(id) for a number).
DocKey(id) == IF id = "#7" THEN "7" ELSE id

Article(id, title, abstract, categories, authors, submitter) ==
    [isNull |-> FALSE, id |-> id, title |-> title, abstract |-> abstract,
     categories |-> categories, authors |-> authors, submitter |-> submitter]

NullArticle ==
    [isNull |-> TRUE, id |-> NoId, title |-> <<>>, abstract |-> <<>>,
     categories |-> <<>>, authors |-> <<>>, submitter |-> <<>>]

\* ------------------------------------------------------------------------
\* The corpus of the initial build (arxiv.json)
\* ------------------------------------------------------------------------
Letters == <<"a", "b", "c", "d", "e", "g", "h", "k">>

Filler(i) == "f" \o Letters[((i - 1) \div 8) + 1] \o Letters[((i - 1) % 8) + 1]

Fillers(from, to) == [i \in 1..(to - from + 1) |-> Filler(from + i - 1)]

InitCorpus ==
    << Article("d0", Fillers(1, 7), Fillers(8, 14), <<>>, <<>>, <<"neural">>),
       Article("d9", Fillers(15, 21), Fillers(22, 28), <<>>, <<>>, <<>>),
       Article("d8", Fillers(29, 35), Fillers(36, 42), <<>>, <<>>, <<>>),
       Article("d7", Fillers(43, 49), Fillers(50, 57), <<>>, <<>>, <<>>),
       Article("d3", <<"deep", "the", "of", "learning">>, <<>>, <<>>, <<>>, <<>>),
       Article("d2", <<"deep", "learning">>, <<>>, <<>>, <<>>, <<>>),
       Article("d1", <<"deep", "learning">>, <<>>, <<>>, <<>>, <<>>),
       Article("d4", <<"auto", "safety">>, <<>>, <<>>, <<>>, <<>>),
       Article("d5", <<"car">>, <<"auto">>, <<"safety">>, <<>>, <<>>) >>

\* ------------------------------------------------------------------------
\* Initial build: lexicon
\* ------------------------------------------------------------------------
RECURSIVE VocabTokens(_, _)
VocabTokens(tokens, st) ==
    IF tokens = <<>> THEN st
    ELSE LET token == Head(tokens) IN
         IF Len(token) < MIN_WORD_LENGTH \/ token \in STOP_WORDS
             THEN VocabTokens(Tail(tokens), st)
         ELSE IF token \in DOMAIN st.vocabulary
             THEN VocabTokens(Tail(tokens), st)
         ELSE VocabTokens(Tail(tokens),
                          [vocabulary |-> Put(st.vocabulary, token, st.nextWordId),
                           nextWordId |-> st.nextWordId + 1])

RECURSIVE VocabFields(_, _)
VocabFields(fields, st) ==
    IF Strict(st) /\ fields = <<>> THEN st
    ELSE IF Head(fields) = NonString THEN st    \* toLowerCase throws: article abandoned
    ELSE VocabFields(Tail(fields), VocabTokens(Head(fields), st))

RECURSIVE buildVocabularyFrom(_, _)
buildVocabularyFrom(articles, st) ==
    IF Strict(st) /\ articles = <<>> THEN st
    ELSE LET article == Head(articles)
             fields == SelectSeq(<<article.submitter, article.authors, article.title,
                                   article.abstract, article.categories>>,
                                 LAMBDA f : f # <<>>)
         IN  IF article.isNull \/ fields = <<>>
                 THEN buildVocabularyFrom(Tail(articles), st)
                 ELSE buildVocabularyFrom(Tail(articles), VocabFields(fields, st))

buildVocabulary(articles) ==
    buildVocabularyFrom(articles, [vocabulary |-> EmptyMap, nextWordId |-> 1]).vocabulary

\* ------------------------------------------------------------------------
\* Initial build: forward index, inverted index, barrels, document store
\* ------------------------------------------------------------------------
Hit(pos, type) == [pos |-> pos, type |-> type]

Posting(docId, hits) == [docId |-> docId, hits |-> hits]

\* The fields of an article in canonical order, those without text dropped.
CanonicalFields(article) ==
    SelectSeq(<< [text |-> article.title, type |-> FIELD_TYPES.TITLE],
                 [text |-> article.abstract, type |-> FIELD_TYPES.ABSTRACT],
                 [text |-> article.categories, type |-> FIELD_TYPES.CATEGORIES],
                 [text |-> article.authors, type |-> FIELD_TYPES.AUTHORS],
                 [text |-> article.submitter, type |-> FIELD_TYPES.SUBMITTER] >>,
              LAMBDA f : f.text # <<>>)

RECURSIVE ForwardTokens(_, _, _, _)
ForwardTokens(tokens, type, vocabulary, st) ==
    IF tokens = <<>> THEN st
    ELSE LET token == Head(tokens) IN
         IF Len(token) < MIN_WORD_LENGTH \/ token \in STOP_WORDS
             THEN ForwardTokens(Tail(tokens), type, vocabulary,
                                [st EXCEPT !.position = @ + 1])
         ELSE IF token \in DOMAIN vocabulary
             THEN LET wordId == vocabulary[token]
                      hit == Hit(st.position, type)
                      docEntry == IF wordId \in DOMAIN st.docEntry
                                      THEN st.docEntry ELSE Put(st.docEntry, wordId, <<>>)
                  IN  ForwardTokens(Tail(tokens), type, vocabulary,
                          [docEntry |-> Put(docEntry, wordId, Append(docEntry[wordId], hit)),
                           position |-> st.position + 1])
         ELSE ForwardTokens(Tail(tokens), type, vocabulary,
                            [st EXCEPT !.position = @ + 1])

RECURSIVE ForwardFields(_, _, _)
ForwardFields(fields, vocabulary, st) ==
    IF Strict(st) /\ fields = <<>> THEN st
    ELSE ForwardFields(Tail(fields), vocabulary,
                       ForwardTokens(Head(fields).text, Head(fields).type, vocabulary, st))

\* The forward index as the ordered list of its entries (a Map, then the
\* key order of forwardIndex.json).
RECURSIVE buildForwardIndex(_, _)
buildForwardIndex(articles, vocabulary) ==
    IF articles = <<>> THEN <<>>
    ELSE LET article == Head(articles)
             rest == buildForwardIndex(Tail(articles), vocabulary)
             fields == CanonicalFields(article)
             done == ForwardFields(fields, vocabulary,
                                   [docEntry |-> EmptyMap, position |-> 0])
         IN  IF article.isNull \/ article.id = NoId THEN rest
             ELSE IF fields = <<>> THEN rest
             ELSE IF \E i \in 1..Len(fields) : fields[i].text = NonString THEN rest
             ELSE IF DOMAIN done.docEntry = {} THEN rest
             ELSE <<[docId |-> article.id, docEntry |-> done.docEntry]>> \o rest

RECURSIVE InvertEntry(_, _, _, _)
InvertEntry(wordIds, docId, docTerms, invertedIndex) ==
    IF wordIds = <<>> THEN invertedIndex
    ELSE LET wordId == Head(wordIds)
             posting == Posting(docId, docTerms[wordId])
         IN  IF wordId \in DOMAIN invertedIndex
                 THEN InvertEntry(Tail(wordIds), docId, docTerms,
                          Put(invertedIndex, wordId, Append(invertedIndex[wordId], posting)))
                 ELSE InvertEntry(Tail(wordIds), docId, docTerms,
                          Put(invertedIndex, wordId, <<posting>>))

RECURSIVE buildInvertedIndexFrom(_, _)
buildInvertedIndexFrom(entries, invertedIndex) ==
    IF Strict(invertedIndex) /\ entries = <<>> THEN invertedIndex
    ELSE buildInvertedIndexFrom(Tail(entries),
             InvertEntry(AscendingKeys(DOMAIN Head(entries).docEntry),
                         Head(entries).docId, Head(entries).docEntry, invertedIndex))

buildInvertedIndex(forwardIndex) == buildInvertedIndexFrom(forwardIndex, EmptyMap)

\* The barrel files written by the initial build: one per non-empty barrel.
partitionAndSaveBarrels(invertedIndex) ==
    LET barrels == [i \in 0..(NUM_BARRELS - 1) |->
                       [wordId \in {w \in DOMAIN invertedIndex : w % NUM_BARRELS = i}
                           |-> invertedIndex[wordId]]]
    IN  [i \in {b \in 0..(NUM_BARRELS - 1) : DOMAIN barrels[b] # {}} |-> barrels[i]]

Metadata(article) ==
    [title |-> article.title,
     authors |-> IF article.authors = <<>> THEN <<"N/A">> ELSE article.authors,
     categories |-> article.categories]

RECURSIVE buildDocStoreFrom(_, _)
buildDocStoreFrom(articles, docStore) ==
    IF Strict(docStore) /\ articles = <<>> THEN docStore
    ELSE LET article == Head(articles) IN
         IF article.isNull \/ article.id = NoId
             THEN buildDocStoreFrom(Tail(articles), docStore)
             ELSE buildDocStoreFrom(Tail(articles),
                                    Put(docStore, DocKey(article.id), Metadata(article)))

buildDocStore(articles) == buildDocStoreFrom(articles, EmptyMap)

ForwardIndexFile(entries) ==
    [k \in {DocKey(entries[i].docId) : i \in 1..Len(entries)} |->
        (CHOOSE e \in {entries[i] : i \in 1..Len(entries)} : DocKey(e.docId) = k).docEntry]

\* The persisted index after the initial build of InitCorpus.
InitLexicon == buildVocabulary(InitCorpus)
InitForwardIndex == buildForwardIndex(InitCorpus, InitLexicon)
InitInvertedIndex == buildInvertedIndex(InitForwardIndex)
InitBarrels == partitionAndSaveBarrels(InitInvertedIndex)
InitDocStore == buildDocStore(InitCorpus)

\* ------------------------------------------------------------------------
\* Incremental indexer (worker thread): helpers
\* ------------------------------------------------------------------------
\* One barrel merged with the new postings of each word appended twice.
MergeBarrelTwice(existing, newMap) ==
    [wordId \in (DOMAIN existing) \cup (DOMAIN newMap) |->
        GetOr(existing, wordId, <<>>) \o GetOr(newMap, wordId, <<>>)
            \o GetOr(newMap, wordId, <<>>)]

\* A next ID that is the largest ID in use.
findNextWordIdIsMax(lexicon) ==
    LET ids == {lexicon[t] : t \in DOMAIN lexicon}
    IN  IF ids = {} THEN 0 ELSE SetMax(ids \cup {0})

findNextWordId(lexicon) ==
    LET ids == {lexicon[t] : t \in DOMAIN lexicon}
        maxId == IF ids = {} THEN 0 ELSE SetMax(ids \cup {0})
    IN  maxId + 1

\* existingDocIds.has(id): a Set of the string keys of docStore, compared
\* to the raw id without conversion; a numeric id equals no key.
HasDocId(existingDocIds, id) == id \notin NumericIds /\ id \in existingDocIds

RECURSIVE ProcessTokensDense(_, _, _)
\* Tokens of one field, a skipped token leaving the position as it is.
ProcessTokensDense(tokens, type, st) ==
    IF tokens = <<>> THEN st
    ELSE LET token == Head(tokens) IN
         IF Len(token) < MIN_WORD_LENGTH \/ token \in STOP_WORDS
             THEN ProcessTokensDense(Tail(tokens), type, st)
         ELSE LET isNew == token \notin DOMAIN st.lexicon
                  wordId == IF isNew THEN st.nextWordId ELSE st.lexicon[token]
                  lexicon == IF isNew THEN Put(st.lexicon, token, wordId) ELSE st.lexicon
                  hit == Hit(st.position, type)
                  docEntry == IF wordId \in DOMAIN st.docEntry
                                  THEN st.docEntry ELSE Put(st.docEntry, wordId, <<>>)
              IN  ProcessTokensDense(Tail(tokens), type,
                      [lexicon |-> lexicon,
                       nextWordId |-> IF isNew THEN st.nextWordId + 1 ELSE st.nextWordId,
                       docEntry |-> Put(docEntry, wordId, Append(docEntry[wordId], hit)),
                       position |-> st.position + 1,
                       threw |-> FALSE])

\* Tokens of one field: intern new tokens, record hits, advance the position.
RECURSIVE ProcessTokens(_, _, _)
ProcessTokens(tokens, type, st) ==
    IF tokens = <<>> THEN st
    ELSE LET token == Head(tokens) IN
         IF Len(token) < MIN_WORD_LENGTH \/ token \in STOP_WORDS
             THEN ProcessTokens(Tail(tokens), type, [st EXCEPT !.position = @ + 1])
         ELSE LET isNew == token \notin DOMAIN st.lexicon
                  wordId == IF isNew THEN st.nextWordId ELSE st.lexicon[token]
                  lexicon == IF isNew THEN Put(st.lexicon, token, wordId) ELSE st.lexicon
                  hit == Hit(st.position, type)
                  docEntry == IF wordId \in DOMAIN st.docEntry
                                  THEN st.docEntry ELSE Put(st.docEntry, wordId, <<>>)
              IN  ProcessTokens(Tail(tokens), type,
                      [lexicon |-> lexicon,
                       nextWordId |-> IF isNew THEN st.nextWordId + 1 ELSE st.nextWordId,
                       docEntry |-> Put(docEntry, wordId, Append(docEntry[wordId], hit)),
                       position |-> st.position + 1,
                       threw |-> FALSE])

\* The fields of one article; a text that is not a string makes toLowerCase
\* throw, which abandons the article with the lexicon as changed so far.
RECURSIVE ProcessFields(_, _)
ProcessFields(fields, st) ==
    IF Strict(st) /\ fields = <<>> THEN st
    ELSE IF Head(fields).text = NonString THEN [st EXCEPT !.threw = TRUE]
    ELSE ProcessFields(Tail(fields), ProcessTokens(Head(fields).text, Head(fields).type, st))

\* newPostingsByBarrel: a Map barrelIdx -> Map wordId -> postings; `order` is
\* its insertion order.
EmptyPostingsByBarrel == [order |-> <<>>, maps |-> EmptyMap]

\* A barrel index that is off by one: the partition a build with
\* (parseInt(wId) + 1) % NUM_BARRELS would produce.
BarrelIdxShifted(wId) == (wId + 1) % NUM_BARRELS

\* const barrelIdx = parseInt(wId) % NUM_BARRELS
BarrelIdx(wId) == wId % NUM_BARRELS

RECURSIVE AddPostings(_, _, _, _)
AddPostings(wIds, docId, docEntry, npb) ==
    IF wIds = <<>> THEN npb
    ELSE LET wId == Head(wIds)
             hitList == docEntry[wId]
             barrelIdx == BarrelIdx(wId)
             posting == Posting(docId, hitList)
             isNewBarrel == barrelIdx \notin DOMAIN npb.maps
             barrelMap == IF isNewBarrel THEN EmptyMap ELSE npb.maps[barrelIdx]
             list == GetOr(barrelMap, wId, <<>>)
         IN  AddPostings(Tail(wIds), docId, docEntry,
                 [order |-> IF isNewBarrel THEN Append(npb.order, barrelIdx) ELSE npb.order,
                  maps |-> Put(npb.maps, barrelIdx, Put(barrelMap, wId, Append(list, posting)))])

RECURSIVE processNewArticlesFrom(_, _)
processNewArticlesFrom(articles, acc) ==
    IF Strict(acc) /\ articles = <<>> THEN acc
    ELSE LET article == Head(articles)
             docId == article.id
             fields == CanonicalFields(article)
             done == ProcessFields(fields,
                         [lexicon |-> acc.updatedLexicon, nextWordId |-> acc.newNextWordId,
                          docEntry |-> EmptyMap, position |-> 0, threw |-> FALSE])
             interned == [acc EXCEPT !.updatedLexicon = done.lexicon,
                                     !.newNextWordId = done.nextWordId]
         IN  IF article.isNull \/ docId = NoId
                 THEN processNewArticlesFrom(Tail(articles), acc)
             ELSE IF fields = <<>>
                 THEN processNewArticlesFrom(Tail(articles), acc)
             ELSE IF done.threw
                 THEN processNewArticlesFrom(Tail(articles), interned)
             ELSE IF DOMAIN done.docEntry = {}
                 THEN processNewArticlesFrom(Tail(articles), interned)
             ELSE processNewArticlesFrom(Tail(articles),
                      [interned EXCEPT
                          !.newPostingsByBarrel =
                              AddPostings(AscendingKeys(DOMAIN done.docEntry), docId,
                                          done.docEntry, acc.newPostingsByBarrel),
                          !.newForwardEntries = Put(@, DocKey(docId), done.docEntry),
                          !.processedCount = @ + 1])

processNewArticles(articlesToProcess, lexicon, nextWordId) ==
    processNewArticlesFrom(articlesToProcess,
        [newPostingsByBarrel |-> EmptyPostingsByBarrel,
         newForwardEntries |-> EmptyMap,
         updatedLexicon |-> lexicon,
         newNextWordId |-> nextWordId,
         processedCount |-> 0])

\* One barrel of mergeNewPostings: the new postings of each word appended
\* to the list the barrel already holds.
MergeBarrel(existing, newMap) ==
    [wordId \in (DOMAIN existing) \cup (DOMAIN newMap) |->
        GetOr(existing, wordId, <<>>) \o GetOr(newMap, wordId, <<>>)]

RECURSIVE NewMetadata(_, _)
NewMetadata(newArticles, newMetadata) ==
    IF newArticles = <<>> THEN newMetadata
    ELSE LET article == Head(newArticles) IN
         IF article.isNull \/ article.id = NoId
             THEN NewMetadata(Tail(newArticles), newMetadata)
             ELSE NewMetadata(Tail(newArticles),
                              Put(newMetadata, DocKey(article.id), Metadata(article)))

updateAndSaveDocStore(newArticles, docStore) ==
    Spread(docStore, NewMetadata(newArticles, EmptyMap))

updateAndSaveForwardIndex(newForwardEntries, existingForwardIndex) ==
    Spread(existingForwardIndex, newForwardEntries)

\* newArticles.filter(article => article.id && !existingDocIds.has(article.id));
\* reading .id of a null element throws.
FilterThrows(newArticles) == \E i \in 1..Len(newArticles) : newArticles[i].isNull

FilterDuplicates(newArticles, existingDocIds) ==
    SelectSeq(newArticles, LAMBDA article :
        article.id # NoId /\ ~HasDocId(existingDocIds, article.id))

\* ------------------------------------------------------------------------
\* Semantic model (GloVe vectors)
\* ------------------------------------------------------------------------
\* SIMILARITY_THRESHOLD = 0.65, in hundredths.
SIMILARITY_THRESHOLD == 65

\* The lines of the GloVe file: <token> <f1> <f2>.
GLOVE_FILE ==
    << [word |-> "car", vector |-> <<4, 0>>],
       [word |-> "vehicle", vector |-> <<4, 0>>],
       [word |-> "auto", vector |-> <<4, 1>>],
       [word |-> "safety", vector |-> <<0, 3>>] >>

\* SemanticModel.load: the rows whose token is in the target lexicon, in
\* file order (vocab), with their vectors.
SemanticLoad(targetLexiconSet) ==
    LET rows == SelectSeq(GLOVE_FILE, LAMBDA r : r.word \in targetLexiconSet)
    IN  [isLoaded |-> TRUE,
         vocab |-> [i \in 1..Len(rows) |-> rows[i].word],
         vectors |-> [w \in {rows[i].word : i \in 1..Len(rows)} |->
                         (CHOOSE r \in {rows[i] : i \in 1..Len(rows)} : r.word = w).vector]]

SemanticUnloaded == [isLoaded |-> FALSE, vocab |-> <<>>, vectors |-> EmptyMap]

RECURSIVE SumOver(_, _)
SumOver(f, n) == IF n = 0 THEN 0 ELSE f[n] + SumOver(f, n - 1)

DotProduct(vecA, vecB) == SumOver([i \in 1..Len(vecA) |-> vecA[i] * vecB[i]], Len(vecA))

\* cosineSimilarity(vecA, vecB) >= SIMILARITY_THRESHOLD, without the square
\* roots: dot / (|A| |B|) >= t/100  <=>  dot > 0 and dot^2 * 100^2 >= t^2 |A|^2 |B|^2.
SimilarityAtLeastThreshold(vecA, vecB) ==
    LET dot == DotProduct(vecA, vecB)
        normA == DotProduct(vecA, vecA)
        normB == DotProduct(vecB, vecB)
    IN  /\ normA # 0 /\ normB # 0
        /\ dot > 0
        /\ dot * dot * 10000 >= SIMILARITY_THRESHOLD * SIMILARITY_THRESHOLD * normA * normB

\* similarity(input, a) > similarity(input, b), both being positive.
MoreSimilar(inputVector, vecA, vecB) ==
    LET da == DotProduct(inputVector, vecA)
        db == DotProduct(inputVector, vecB)
    IN  da * da * DotProduct(vecB, vecB) > db * db * DotProduct(vecA, vecA)

\* Array.prototype.sort with a comparator that orders by a number: the
\* elements in ascending order of key[i], equal keys keeping their order
\* (the sort is stable).
StableSortByKey(seq, key) ==
    LET n == Len(seq)
        rank(i) == 1 + Cardinality({j \in 1..n : key[j] < key[i] \/ (key[j] = key[i] /\ j < i)})
    IN  [p \in 1..n |-> seq[CHOOSE i \in 1..n : rank(i) = p]]

findSynonyms(model, inputWord) ==
    IF ~model.isLoaded \/ inputWord \notin DOMAIN model.vectors THEN <<>>
    ELSE LET inputVector == model.vectors[inputWord]
             candidates == SelectSeq(model.vocab, LAMBDA word :
                               /\ word # inputWord
                               /\ SimilarityAtLeastThreshold(inputVector, model.vectors[word]))
             \* (a, b) => b.score - a.score: descending similarity; the key of a
             \* candidate is the number of candidates strictly more similar.
             sorted == StableSortByKey(candidates,
                           [i \in 1..Len(candidates) |->
                               Cardinality({j \in 1..Len(candidates) :
                                   MoreSimilar(inputVector, model.vectors[candidates[j]],
                                               model.vectors[candidates[i]])})])
         IN  SubSeq(sorted, 1, IF Len(sorted) < MAX_SYNONYMS THEN Len(sorted) ELSE MAX_SYNONYMS)

\* ------------------------------------------------------------------------
\* Query engine: executeSearch
\* ------------------------------------------------------------------------
Range(seq) == {seq[i] : i \in 1..Len(seq)}

Min2(a, b) == IF a < b THEN a ELSE b
Max2(a, b) == IF a > b THEN a ELSE b

\* The insertion order of a Set built by adding the elements of seq in turn.
SetOrder(seq) ==
    LET firsts == {i \in 1..Len(seq) : \A j \in 1..(i - 1) : seq[j] # seq[i]}
        order == AscendingKeys(firsts)
    IN  [k \in 1..Len(order) |-> seq[order[k]]]

RECURSIVE Flatten(_)
Flatten(seqs) == IF seqs = <<>> THEN <<>> ELSE Head(seqs) \o Flatten(Tail(seqs))

tokenizeQuery(query) ==
    SelectSeq(query, LAMBDA t : Len(t) >= MIN_TOKEN_LENGTH /\ t \notin STOP_WORDS)

\* One group per token: the token, then its synonyms.
getQueryGroups(model, tokens) ==
    [i \in 1..Len(tokens) |-> SetOrder(<<tokens[i]>> \o findSynonyms(model, tokens[i]))]

getBarrelIndex(wordId) == wordId % NUM_BARRELS

\* loadBarrel: the cached barrel if there is one, else the file, else an
\* empty Map.
loadBarrel(cache, files, barrelIndex) ==
    IF barrelIndex \in DOMAIN cache THEN cache[barrelIndex]
    ELSE IF barrelIndex \in DOMAIN files THEN files[barrelIndex]
    ELSE EmptyMap

\* invertedIndexCache after loadBarrel of each index: a barrel read from
\* its file is cached, a missing file is not.
CacheAfterLoading(cache, files, barrelsToLoad) ==
    [idx \in (DOMAIN cache) \cup (Range(barrelsToLoad) \cap DOMAIN files) |->
        IF idx \in DOMAIN cache THEN cache[idx] ELSE files[idx]]

\* The IDs of the words of all groups that are in the lexicon, in order.
AllWordIds(termGroups, vocabulary) ==
    LET words == SelectSeq(Flatten(termGroups), LAMBDA w : w \in DOMAIN vocabulary)
    IN  [i \in 1..Len(words) |-> vocabulary[words[i]]]

BarrelsToLoad(allWordIds) ==
    SetOrder([i \in 1..Len(allWordIds) |-> getBarrelIndex(allWordIds[i])])

\* loadedPostings: for each barrel in turn, each wanted id the barrel has
\* is (re)assigned that barrel's list.
LoadedPostings(allWordIds, barrelsToLoad, cache, files) ==
    LET holders(id) == {k \in 1..Len(barrelsToLoad) :
                           id \in DOMAIN loadBarrel(cache, files, barrelsToLoad[k])}
    IN  [id \in {x \in Range(allWordIds) : holders(x) # {}} |->
            loadBarrel(cache, files, barrelsToLoad[SetMax(holders(id))])[id]]

ScoredPosting(posting, isExact) ==
    [docId |-> posting.docId, hits |-> posting.hits, isExact |-> isExact]

RECURSIVE AddScoredPostingsLast(_, _, _)
\* docsInThisGroup when a posting always replaces the one of its document.
AddScoredPostingsLast(postings, isExactMatch, docsInThisGroup) ==
    IF postings = <<>> THEN docsInThisGroup
    ELSE LET scoredPosting == ScoredPosting(Head(postings), isExactMatch)
             at == {k \in 1..Len(docsInThisGroup) :
                       docsInThisGroup[k].docId = scoredPosting.docId}
         IN  IF at = {}
                 THEN AddScoredPostingsLast(Tail(postings), isExactMatch,
                                            Append(docsInThisGroup, scoredPosting))
             ELSE AddScoredPostingsLast(Tail(postings), isExactMatch,
                      [docsInThisGroup EXCEPT ![SetMin(at)] = scoredPosting])

\* docsInThisGroup: a Map docId -> scored posting, as the list of its
\* values in insertion order.
RECURSIVE AddScoredPostings(_, _, _)
AddScoredPostings(postings, isExactMatch, docsInThisGroup) ==
    IF postings = <<>> THEN docsInThisGroup
    ELSE LET scoredPosting == ScoredPosting(Head(postings), isExactMatch)
             at == {k \in 1..Len(docsInThisGroup) :
                       docsInThisGroup[k].docId = scoredPosting.docId}
         IN  IF at = {}
                 THEN AddScoredPostings(Tail(postings), isExactMatch,
                                        Append(docsInThisGroup, scoredPosting))
             ELSE IF scoredPosting.isExact /\ ~docsInThisGroup[SetMin(at)].isExact
                 THEN AddScoredPostings(Tail(postings), isExactMatch,
                          [docsInThisGroup EXCEPT ![SetMin(at)] = scoredPosting])
             ELSE AddScoredPostings(Tail(postings), isExactMatch, docsInThisGroup)

RECURSIVE GroupDocs(_, _, _, _, _)
GroupDocs(words, queryToken, vocabulary, loadedPostings, docsInThisGroup) ==
    IF Strict(docsInThisGroup) /\ words = <<>> THEN docsInThisGroup
    ELSE LET word == Head(words) IN
         IF word \in DOMAIN vocabulary /\ vocabulary[word] \in DOMAIN loadedPostings
             THEN GroupDocs(Tail(words), queryToken, vocabulary, loadedPostings,
                      AddScoredPostings(loadedPostings[vocabulary[word]],
                                        word = queryToken, docsInThisGroup))
             ELSE GroupDocs(Tail(words), queryToken, vocabulary, loadedPostings,
                            docsInThisGroup)

\* candidateDocs: a Map docId -> postings, as the list of its entries.
RECURSIVE Intersect(_, _, _)
Intersect(candidateDocs, groupDocs, i) ==
    IF i > Len(groupDocs) THEN candidateDocs
    ELSE LET nextGroup == groupDocs[i]
             inBoth == SelectSeq(candidateDocs, LAMBDA c :
                           \E k \in 1..Len(nextGroup) : nextGroup[k].docId = c.docId)
             intersection ==
                 [n \in 1..Len(inBoth) |->
                     [docId |-> inBoth[n].docId,
                      postings |-> Append(inBoth[n].postings,
                          nextGroup[CHOOSE k \in 1..Len(nextGroup) :
                                        nextGroup[k].docId = inBoth[n].docId])]]
         IN  IF Len(intersection) = 0 THEN intersection
             ELSE Intersect(intersection, groupDocs, i + 1)

calculateSingleWordScore(posting) ==
    SumOver([i \in 1..Len(posting.hits) |-> GetOr(FIELD_WEIGHTS, posting.hits[i].type, 0)],
            Len(posting.hits))

\* The proximity bonus without Math.max / Math.min: it goes negative when
\* the span exceeds maxSpan.
calculateProximityBonusUnclamped(docPostings) ==
    LET allPositions == Flatten([p \in 1..Len(docPostings) |->
                            [h \in 1..Len(docPostings[p].hits) |-> docPostings[p].hits[h].pos]])
        sorted == StableSortByKey(allPositions, allPositions)
    IN  IF Len(allPositions) = 0 THEN 0
        ELSE maxSpan - (sorted[Len(sorted)] - sorted[1])

\* In hundredths: Math.max(0, maxSpan - Math.min(span, maxSpan)) / 100.
calculateProximityBonus(docPostings) ==
    LET allPositions == Flatten([p \in 1..Len(docPostings) |->
                            [h \in 1..Len(docPostings[p].hits) |-> docPostings[p].hits[h].pos]])
        sorted == StableSortByKey(allPositions, allPositions)
        span == sorted[Len(sorted)] - sorted[1]
    IN  IF Len(allPositions) = 0 THEN 0
        ELSE Max2(0, maxSpan - Min2(span, maxSpan))

\* The result of one candidate when one exact posting is enough for
\* matchType "Exact".
ScoreCandidateAnyExact(docId, postingsArr, queryTokens) ==
    LET wordScore(p) == IF ~p.isExact THEN calculateSingleWordScore(p) * 50
                        ELSE calculateSingleWordScore(p) * 100
        sum == SumOver([k \in 1..Len(postingsArr) |-> wordScore(postingsArr[k])],
                       Len(postingsArr))
    IN  [docId |-> docId,
         score |-> IF Len(postingsArr) > 1
                       THEN sum + calculateProximityBonus(postingsArr) ELSE sum,
         wordCount |-> Len(postingsArr),
         matchType |-> IF \E k \in 1..Len(postingsArr) : postingsArr[k].isExact
                           THEN "Exact" ELSE "Semantic"]

\* The result of one candidate; the score is in hundredths.
ScoreCandidate(docId, postingsArr, queryTokens) ==
    LET wordScore(p) == IF ~p.isExact THEN calculateSingleWordScore(p) * 50
                        ELSE calculateSingleWordScore(p) * 100
        exactMatchesCount == Cardinality({k \in 1..Len(postingsArr) : postingsArr[k].isExact})
        sum == SumOver([k \in 1..Len(postingsArr) |-> wordScore(postingsArr[k])],
                       Len(postingsArr))
        totalScore == IF Len(postingsArr) > 1
                          THEN sum + calculateProximityBonus(postingsArr) ELSE sum
    IN  [docId |-> docId,
         score |-> totalScore,
         wordCount |-> Len(postingsArr),
         matchType |-> IF exactMatchesCount = Len(queryTokens) THEN "Exact" ELSE "Semantic"]

\* executeSearch, by its numbered steps.  Each step is an operator that
\* takes what the steps before it computed.  totalResults is <<n>>, or <<>>
\* where the code returns an object without that property; barrelsToLoad
\* is kept for the effect on invertedIndexCache.
EarlyReturn(queryTokens) ==
    [results |-> <<>>, tokens |-> queryTokens, totalResults |-> <<>>,
     barrelsToLoad |-> <<>>]

\* 6. Calculate final scores, sort by score.
SortByScore(results) ==
    StableSortByKey(results, [n \in 1..Len(results) |-> 0 - results[n].score])

ScoreCandidates(queryTokens, barrelsToLoad, candidateDocs) ==
    [results |-> SortByScore([n \in 1..Len(candidateDocs) |->
                     ScoreCandidate(candidateDocs[n].docId, candidateDocs[n].postings,
                                    queryTokens)]),
     tokens |-> queryTokens,
     totalResults |-> <<Len(candidateDocs)>>,
     barrelsToLoad |-> barrelsToLoad]

\* 5. Intersect the groups, smallest first.
FirstGroup(group) ==
    [n \in 1..Len(group) |-> [docId |-> group[n].docId, postings |-> <<group[n]>>]]

IntersectSorted(groupDocs) == Intersect(FirstGroup(groupDocs[1]), groupDocs, 2)

IntersectGroups(groupDocs) ==
    IntersectSorted(StableSortByKey(groupDocs,
                        [i \in 1..Len(groupDocs) |-> Len(groupDocs[i])]))

\* 4. Build the document set of each group.
BuildGroupDocs(queryTokens, termGroups, voc, loadedPostings) ==
    [i \in 1..Len(termGroups) |->
        GroupDocs(termGroups[i], queryTokens[i], voc, loadedPostings, <<>>)]

\* 3. Load the barrels.
SearchWordIds(queryTokens, termGroups, allWordIds, barrelsToLoad, voc, cache, files) ==
    ScoreCandidates(queryTokens, barrelsToLoad,
        IntersectGroups(BuildGroupDocs(queryTokens, termGroups, voc,
            LoadedPostings(allWordIds, barrelsToLoad, cache, files))))

\* 2. Identify the word IDs needed.
SearchIds(queryTokens, termGroups, allWordIds, voc, cache, files) ==
    IF Len(allWordIds) = 0 THEN EarlyReturn(queryTokens)
    ELSE SearchWordIds(queryTokens, termGroups, allWordIds, BarrelsToLoad(allWordIds),
                       voc, cache, files)

SearchGroups(queryTokens, termGroups, voc, cache, files) ==
    SearchIds(queryTokens, termGroups, AllWordIds(termGroups, voc), voc, cache, files)

\* 1. Expand the query.
SearchTokens(queryTokens, voc, model, cache, files) ==
    IF Len(queryTokens) = 0 THEN EarlyReturn(<<>>)
    ELSE SearchGroups(queryTokens, getQueryGroups(model, queryTokens), voc, cache, files)

executeSearch(query, voc, model, cache, files) ==
    SearchTokens(tokenizeQuery(query), voc, model, cache, files)

\* search, given the result of executeSearch: one page of the results, each
\* enriched with the metadata of the document store when it has the
\* document (metadata <<m>>, else <<>>).
Enrich(rawResult, store) ==
    [docId |-> rawResult.docId, score |-> rawResult.score,
     wordCount |-> rawResult.wordCount, matchType |-> rawResult.matchType,
     metadata |-> IF DocKey(rawResult.docId) \in DOMAIN store
                      THEN <<store[DocKey(rawResult.docId)]>> ELSE <<>>]

EnrichPage(paginatedResultsRaw, store) ==
    [n \in 1..Len(paginatedResultsRaw) |-> Enrich(paginatedResultsRaw[n], store)]

\* A slice that takes the element at endIdx too.
SliceInclusive(seq, startIdx, endIdx) ==
    SubSeq(seq, startIdx + 1, Min2(endIdx + 1, Len(seq)))

\* seq.slice(startIdx, endIdx) for 0 <= startIdx <= endIdx.
Slice(seq, startIdx, endIdx) == SubSeq(seq, startIdx + 1, Min2(endIdx, Len(seq)))

SearchPage(searchResult, page, limit, store) ==
    [results |-> EnrichPage(Slice(searchResult.results, (page - 1) * limit,
                                  (page - 1) * limit + limit), store),
     tokens |-> searchResult.tokens,
     page |-> page,
     limit |-> limit,
     totalResults |-> searchResult.totalResults,
     hasMore |-> (page - 1) * limit + limit < Len(searchResult.results)]

search(query, page, limit, voc, store, model, cache, files) ==
    SearchPage(executeSearch(query, voc, model, cache, files), page, limit, store)

\* ------------------------------------------------------------------------
\* Trie and autocomplete
\* ------------------------------------------------------------------------
\* A string is a TLA+ string: Len, Head, Tail, SubSeq and \o act on its
\* characters.  The characters that occur in tokens, in ascending order of
\* code unit, and the upper-case letters that toLowerCase maps onto them.
Alphabet == "abcdefghijklmnopqrstuvwxyz"
UpperCase == "ABCDEFGHIJKLMNOPQRSTUVWXYZ"

CharAt(str, i) == SubSeq(str, i, i)

IndexIn(str, ch) ==
    IF \E i \in 1..Len(str) : CharAt(str, i) = ch
        THEN SetMin({i \in 1..Len(str) : CharAt(str, i) = ch}) ELSE 0

RECURSIVE toLowerCase(_)
toLowerCase(str) ==
    IF str = "" THEN ""
    ELSE (IF IndexIn(UpperCase, Head(str)) = 0 THEN Head(str)
          ELSE CharAt(Alphabet, IndexIn(UpperCase, Head(str))))
         \o toLowerCase(Tail(str))

\* str.lastIndexOf(' '), from 0; -1 when there is no space.
lastIndexOfSpace(str) ==
    IF \E i \in 1..Len(str) : CharAt(str, i) = " "
        THEN SetMax({i \in 1..Len(str) : CharAt(str, i) = " "}) - 1 ELSE 0 - 1

StartsWith(word, prefix) ==
    Len(prefix) <= Len(word) /\ SubSeq(word, 1, Len(prefix)) = prefix

\* The trie that insert() builds from a set of words has one node per
\* prefix of a word; a node is named by its prefix, the root by "".
\* node.children.keys(), sorted.
sortedChildren(words, node) ==
    LET keys == {CharAt(w, Len(node) + 1) :
                    w \in {x \in words : Len(x) > Len(node) /\ StartsWith(x, node)}}
    IN  SelectSeq([i \in 1..Len(Alphabet) |-> CharAt(Alphabet, i)],
                  LAMBDA ch : ch \in keys)

RECURSIVE searchNodeOrRoot(_, _, _)
\* A walk that falls back to the root instead of returning null.
searchNodeOrRoot(words, node, rest) ==
    IF rest = "" THEN <<node>>
    ELSE IF Head(rest) \notin Range(sortedChildren(words, node)) THEN <<"">>
    ELSE searchNodeOrRoot(words, node \o Head(rest), Tail(rest))

RECURSIVE searchNode(_, _, _)
\* Trie.searchNode from `node` along `rest`: <<the node>>, or <<>> for null.
searchNode(words, node, rest) ==
    IF rest = "" THEN <<node>>
    ELSE IF Head(rest) \notin Range(sortedChildren(words, node)) THEN <<>>
    ELSE searchNode(words, node \o Head(rest), Tail(rest))

\* results.length >= maxResults, where maxResults is <<n>> or <<>> for
\* Infinity.
AtLimitOffByOne(results, maxResults) ==
    maxResults # <<>> /\ Len(results) > maxResults[1]

AtLimit(results, maxResults) ==
    maxResults # <<>> /\ Len(results) >= maxResults[1]

RECURSIVE collectWords(_, _, _, _)
RECURSIVE collectChildren(_, _, _, _, _)
collectWords(words, node, results, maxResults) ==
    IF AtLimit(results, maxResults) THEN results
    ELSE collectChildren(words, node, sortedChildren(words, node),
                         IF node \in words THEN Append(results, node) ELSE results,
                         maxResults)

collectChildren(words, node, chars, results, maxResults) ==
    IF Strict(results) /\ chars = <<>> THEN results
    ELSE collectChildren(words, node, Tail(chars),
                         collectWords(words, node \o Head(chars), results, maxResults),
                         maxResults)

\* Trie.autocomplete(prefix, limit)
TrieAutocomplete(words, prefix, limit) ==
    LET startNode == searchNode(words, "", prefix)
    IN  IF startNode = <<>> THEN <<>>
        ELSE collectWords(words, startNode[1], <<>>, limit)

\* autocomplete(query) of the engine, over the words in the trie.
Suggest(words, baseQuery, prefix) ==
    IF Len(prefix) = 0 THEN <<>>
    ELSE LET suggestionsForPrefix ==
                 SelectSeq(TrieAutocomplete(words, prefix, <<MAX_AUTOCOMPLETE_SUGGESTIONS>>),
                           LAMBDA word : Len(word) >= MIN_TOKEN_LENGTH)
         IN  [n \in 1..Len(suggestionsForPrefix) |-> baseQuery \o suggestionsForPrefix[n]]

SuggestNormalized(words, normalizedQuery, lastSpaceIndex) ==
    IF lastSpaceIndex # 0 - 1
        THEN Suggest(words, SubSeq(normalizedQuery, 1, lastSpaceIndex + 1),
                     SubSeq(normalizedQuery, lastSpaceIndex + 2, Len(normalizedQuery)))
        ELSE Suggest(words, "", normalizedQuery)

autocomplete(words, query) ==
    SuggestNormalized(words, toLowerCase(query), lastIndexOfSpace(toLowerCase(query)))

\* ------------------------------------------------------------------------
\* The system: disk, serving process, indexing jobs
\* ------------------------------------------------------------------------
VARIABLES
    lexiconFile,          \* lexicon.json
    docStoreFile,         \* docStore.json
    forwardIndexFile,     \* forwardIndex.json
    barrelFiles,          \* barrels/barrel_<i>.json, for the files that exist
    vocabulary,           \* serving process: the lexicon in memory
    docStore,             \* serving process: the document store in memory
    trie,                 \* serving process: the words inserted in the trie
    invertedIndexCache,   \* serving process: barrelIndex -> barrel
    semanticModel,        \* serving process: the GloVe vectors loaded
    jobs,                 \* the indexing jobs submitted, in order
    searchResponse,       \* the last response of GET /search
    searches,             \* how many searches were served
    generations,          \* history: the (lexicon, docStore) of each persisted generation
    scoring,              \* a candidate of executeSearch step 6 and its result
    grouping,             \* a term group of executeSearch step 4 and its document set
    autocompleteResponse, \* the last response of GET /autocomplete
    trieCall,             \* a call of Trie.autocomplete on a trie of its own
    pager,                \* the results page of the frontend: what it has fetched
    synonymsCall,         \* a call of semanticModel.findSynonyms and its result
    now,                  \* the clock: what Date.now() returns
    lastInitialized       \* serving process: time of the last completed (re)load

vars == <<lexiconFile, docStoreFile, forwardIndexFile, barrelFiles, vocabulary, docStore,
          trie, invertedIndexCache, semanticModel, jobs, searchResponse, searches,
          generations, scoring, grouping, autocompleteResponse, trieCall, pager,
          synonymsCall, now, lastInitialized>>

disk == <<lexiconFile, docStoreFile, forwardIndexFile, barrelFiles>>
serving == <<vocabulary, docStore, trie, invertedIndexCache, semanticModel>>
client == <<autocompleteResponse, trieCall, pager, synonymsCall>>
clock == <<now, lastInitialized>>

MaxJobs == 2
MaxSearches == 2
DefaultPage == 1
DefaultLimit == 10

\* The batches POSTed to /admin/index.
Batches ==
    << <<Article("d6", <<"quantum", "tensor">>, <<>>, <<>>, <<>>, <<>>)>>,
       <<Article("#7", <<"deep", "learning">>, <<>>, <<>>, <<>>, <<>>)>> >>

\* A batch whose filter step throws: article.id is read of null.
FaultyBatches == << <<NullArticle>> >>

AllBatches == Batches \o FaultyBatches

\* Batches with elements that are not documents to index: an element
\* without id, a null element, a document whose abstract is not a string,
\* and the same document twice.
MixedBatches ==
    << << Article(NoId, <<"ghost">>, <<>>, <<>>, <<>>, <<>>),
          Article("e1", <<"graph", "theory">>, <<>>, <<>>, <<>>, <<>>) >>,
       << NullArticle,
          Article("e2", <<"graph", "kernel">>, <<>>, <<>>, <<>>, <<>>) >>,
       << Article("e3", <<"lattice", "sparse">>, NonString, <<>>, <<>>, <<>>),
          Article("e4", <<"the", "sparse", "of", "matrix">>, <<"graph">>, <<>>, <<>>,
                  <<"neural">>) >>,
       << Article("e5", <<"dual", "graph">>, <<>>, <<>>, <<>>, <<>>),
          Article("e5", <<"dual", "graph">>, <<>>, <<>>, <<>>, <<>>) >> >>

\* A batch that gives the numeric id of Batches[2] other content.
RewriteBatches ==
    << << Article("#7", <<"sparse", "kernel">>, <<>>, <<>>, <<>>, <<"neural">>) >> >>

IngestBatches == AllBatches \o MixedBatches

BatchCatalogue == IngestBatches \o RewriteBatches

\* The queries sent to /search while jobs run, after splitting the text
\* into words.
Queries == { <<"neural">>, <<"tensor">>, <<"deep", "learning">> }

Generation(lexicon, store) == [lexicon |-> lexicon, docStore |-> store]

NoResponse == [status |-> 0, query |-> <<>>, body |-> <<>>]

NoSuggestions == [status |-> 0, query |-> "", suggestions |-> <<>>]

NoTrieCall == [words |-> {}, prefix |-> "", limit |-> <<>>, results |-> <<>>, called |-> FALSE]

NoSynonymsCall == [inputWord |-> "", result |-> <<>>, called |-> FALSE]

NoPager == [searchQuery |-> <<>>, limit |-> 0, currentPage |-> 0, results |-> <<>>,
            hasMore |-> FALSE, totalResults |-> <<>>]

\* A job: the worker's position and locals, the promise of
\* runIncrementalIndex, the time of the submission and whether the reload
\* that the job's success triggers has completed.
NewJob(b) ==
    [batch |-> b, pc |-> "loadLexicon", status |-> "running", indexedCount |-> 0,
     promise |-> "pending", submittedAt |-> now, reloaded |-> FALSE,
     lexicon |-> <<>>, docStore |-> <<>>, forwardIndex |-> <<>>,
     articlesToProcess |-> <<>>, processed |-> <<>>, toMerge |-> <<>>, existing |-> <<>>]

\* The state after the server has started: the initial build is on disk and
\* initialize() has run up to its await of semanticModel.load.
Started ==
    /\ lexiconFile = InitLexicon
    /\ docStoreFile = InitDocStore
    /\ forwardIndexFile = ForwardIndexFile(InitForwardIndex)
    /\ barrelFiles = InitBarrels
    /\ vocabulary = InitLexicon
    /\ docStore = InitDocStore
    /\ trie = DOMAIN InitLexicon
    /\ invertedIndexCache = EmptyMap
    /\ jobs = <<>>
    /\ searchResponse = NoResponse
    /\ searches = 0
    /\ generations = {Generation(InitLexicon, InitDocStore)}
    /\ autocompleteResponse = NoSuggestions
    /\ trieCall = NoTrieCall
    /\ synonymsCall = NoSynonymsCall
    /\ pager = NoPager
    /\ now = 0
    /\ lastInitialized = 0

NoScoring == [docId |-> NoId, postingsArr |-> <<>>, queryTokens |-> <<>>, result |-> <<>>]

NoGrouping == [words |-> <<>>, loadedPostings |-> EmptyMap, result |-> <<>>, called |-> FALSE]

\* The state once initialize() has resolved.
Init ==
    /\ Started
    /\ semanticModel = SemanticLoad(DOMAIN InitLexicon)
    /\ scoring = NoScoring
    /\ grouping = NoGrouping

\* The state while initialize() awaits semanticModel.load.
InitLoading ==
    /\ Started
    /\ semanticModel = SemanticUnloaded
    /\ scoring = NoScoring
    /\ grouping = NoGrouping

\* semanticModel.load resolves: the vectors of the words that were in the
\* lexicon when initialize() was called.
SemanticLoaded ==
    /\ ~semanticModel.isLoaded
    /\ semanticModel' = SemanticLoad(DOMAIN InitLexicon)
    /\ lastInitialized' = now
    /\ UNCHANGED <<disk, vocabulary, docStore, trie, invertedIndexCache, jobs,
                   searchResponse, searches, generations, scoring, grouping, client, now>>

\* GET /search?q=...&page=...&limit=... with a query that is not empty.
Respond(query, page, limit, searchResult) ==
    /\ searchResponse' =
           [status |-> 200, query |-> query,
            body |-> SearchPage(searchResult, page, limit, docStore)]
    /\ invertedIndexCache' =
           CacheAfterLoading(invertedIndexCache, barrelFiles, searchResult.barrelsToLoad)

Fetch(query, page, limit) ==
    Respond(query, page, limit, executeSearch(query, vocabulary, semanticModel,
                                              invertedIndexCache, barrelFiles))

SearchPaged(query, page, limit) ==
    /\ searches < MaxSearches
    /\ Fetch(query, page, limit)
    /\ searches' = searches + 1
    /\ UNCHANGED <<disk, vocabulary, docStore, trie, semanticModel, jobs, generations,
                   scoring, grouping, client, clock>>

\* GET /search?q=... without page and limit.
Search(query) == SearchPaged(query, DefaultPage, DefaultLimit)

\* GET /autocomplete?q=...: an empty q is answered without the engine.
Autocomplete(q) ==
    /\ autocompleteResponse' =
           [status |-> 200, query |-> q,
            suggestions |-> IF q = "" THEN <<>> ELSE autocomplete(trie, q)]
    /\ UNCHANGED <<disk, serving, jobs, searchResponse, searches, generations, scoring, grouping,
                   trieCall, pager, synonymsCall, clock>>

\* POST /admin/index with a non-empty array: a worker thread is spawned.
Submit(b) ==
    /\ Len(jobs) < MaxJobs
    /\ jobs' = Append(jobs, NewJob(b))
    /\ UNCHANGED <<disk, serving, searchResponse, searches, generations, scoring, grouping, client,
                   clock>>

At(j, pc) == j \in 1..Len(jobs) /\ jobs[j].pc = pc

WorkerLoadLexicon(j) ==
    /\ At(j, "loadLexicon")
    /\ jobs' = [jobs EXCEPT ![j].lexicon = lexiconFile, ![j].pc = "loadDocStore"]
    /\ UNCHANGED <<disk, serving, searchResponse, searches, generations, scoring, grouping, client,
                   clock>>

WorkerLoadDocStore(j) ==
    /\ At(j, "loadDocStore")
    /\ jobs' = [jobs EXCEPT ![j].docStore = docStoreFile, ![j].pc = "loadForwardIndex"]
    /\ UNCHANGED <<disk, serving, searchResponse, searches, generations, scoring, grouping, client,
                   clock>>

\* The forward index is read; the batch is filtered and processed in memory.
WorkerLoadForwardIndex(j) ==
    /\ At(j, "loadForwardIndex")
    /\ LET job == jobs[j]
           newArticles == BatchCatalogue[job.batch]
           articlesToProcess == FilterDuplicates(newArticles, DOMAIN job.docStore)
           processed == processNewArticles(articlesToProcess, job.lexicon,
                                           findNextWordId(job.lexicon))
           order == processed.newPostingsByBarrel.order
       IN  jobs' = [jobs EXCEPT ![j] =
               IF FilterThrows(newArticles)
                   THEN [job EXCEPT !.forwardIndex = <<>>, !.lexicon = <<>>,
                                    !.docStore = <<>>, !.status = "error", !.pc = "posted"]
               ELSE IF Len(articlesToProcess) = 0
                   THEN [job EXCEPT !.forwardIndex = <<>>, !.lexicon = <<>>,
                                    !.docStore = <<>>, !.status = "success",
                                    !.pc = "posted"]
               ELSE [job EXCEPT !.forwardIndex = forwardIndexFile,
                                !.lexicon = <<>>,
                                !.articlesToProcess = articlesToProcess,
                                !.processed = processed,
                                !.toMerge = order,
                                !.pc = IF order = <<>> THEN "saveLexicon" ELSE "loadBarrel"]]
    /\ UNCHANGED <<disk, serving, searchResponse, searches, generations, scoring, grouping, client,
                   clock>>

\* mergeNewPostings, one barrel: the file is read ...
WorkerLoadBarrel(j) ==
    /\ At(j, "loadBarrel")
    /\ jobs' = [jobs EXCEPT ![j].existing =
                                GetOr(barrelFiles, Head(jobs[j].toMerge), EmptyMap),
                            ![j].pc = "saveBarrel"]
    /\ UNCHANGED <<disk, serving, searchResponse, searches, generations, scoring, grouping, client,
                   clock>>

\* ... and written back with the new postings appended.
WorkerSaveBarrel(j) ==
    /\ At(j, "saveBarrel")
    /\ LET job == jobs[j]
           barrelIdx == Head(job.toMerge)
           merged == MergeBarrel(job.existing,
                                 job.processed.newPostingsByBarrel.maps[barrelIdx])
       IN  /\ barrelFiles' = Put(barrelFiles, barrelIdx, merged)
           /\ jobs' = [jobs EXCEPT ![j].existing = <<>>,
                                   ![j].toMerge = Tail(job.toMerge),
                                   ![j].pc = IF Len(job.toMerge) = 1
                                                 THEN "saveLexicon" ELSE "loadBarrel"]
    /\ UNCHANGED <<lexiconFile, docStoreFile, forwardIndexFile, serving, searchResponse,
                   searches, generations, scoring, grouping, client, clock>>

WorkerSaveLexicon(j) ==
    /\ At(j, "saveLexicon")
    /\ lexiconFile' = jobs[j].processed.updatedLexicon
    /\ jobs' = [jobs EXCEPT ![j].pc = "saveDocStore"]
    /\ UNCHANGED <<docStoreFile, forwardIndexFile, barrelFiles, serving, searchResponse,
                   searches, generations, scoring, grouping, client, clock>>

WorkerSaveDocStore(j) ==
    /\ At(j, "saveDocStore")
    /\ docStoreFile' = updateAndSaveDocStore(jobs[j].articlesToProcess, jobs[j].docStore)
    /\ jobs' = [jobs EXCEPT ![j].pc = "saveForwardIndex"]
    /\ UNCHANGED <<lexiconFile, forwardIndexFile, barrelFiles, serving, searchResponse,
                   searches, generations, scoring, grouping, client, clock>>

\* The last write of the job; the result is then posted to the main thread.
WorkerSaveForwardIndex(j) ==
    /\ At(j, "saveForwardIndex")
    /\ LET job == jobs[j] IN
       /\ forwardIndexFile' = updateAndSaveForwardIndex(
                                  job.processed.newForwardEntries, job.forwardIndex)
       /\ jobs' = [jobs EXCEPT ![j] =
               [job EXCEPT !.status = "success",
                           !.indexedCount = job.processed.processedCount,
                           !.docStore = <<>>, !.forwardIndex = <<>>,
                           !.articlesToProcess = <<>>, !.processed = <<>>,
                           !.pc = "posted"]]
    /\ generations' = generations \cup {Generation(lexiconFile, docStoreFile)}
    /\ UNCHANGED <<lexiconFile, docStoreFile, barrelFiles, serving, searchResponse,
                   searches, scoring, grouping, client, clock>>

ReloadOutcomes == {"ok", "lexiconFails", "docStoreFails"}

\* A handler that calls initialize() whatever the status of the message.
OnMessageThenReload(j, outcome) ==
    /\ At(j, "posted")
    /\ jobs[j].promise = "pending"
    /\ outcome = "ok"
    /\ jobs' = [jobs EXCEPT
                   ![j].pc = "settled",
                   ![j].promise = IF jobs[j].status = "success" THEN "resolved"
                                  ELSE "rejected",
                   ![j].reloaded = TRUE]
    /\ vocabulary' = lexiconFile
    /\ docStore' = docStoreFile
    /\ trie' = DOMAIN lexiconFile
    /\ lastInitialized' = now
    /\ UNCHANGED <<disk, invertedIndexCache, semanticModel, searchResponse, searches,
                   generations, scoring, grouping, client, now>>

\* The main thread receives the worker's message.  On success the promise
\* resolves and the route calls initialize(), which reloads: loadLexicon,
\* loadDocStore, initializeTrie; a read that throws ends it there.
OnMessage(j, outcome) ==
    /\ At(j, "posted")
    /\ jobs[j].promise = "pending"
    /\ jobs' = [jobs EXCEPT
                   ![j].pc = "settled",
                   ![j].promise = IF jobs[j].status = "success" THEN "resolved"
                                  ELSE "rejected",
                   ![j].reloaded = jobs[j].status = "success" /\ outcome = "ok"]
    /\ IF jobs[j].status # "success"
           THEN outcome = "ok" /\ UNCHANGED <<vocabulary, docStore, trie, lastInitialized>>
       ELSE IF outcome = "lexiconFails"
           THEN UNCHANGED <<vocabulary, docStore, trie, lastInitialized>>
       ELSE IF outcome = "docStoreFails"
           THEN vocabulary' = lexiconFile /\ UNCHANGED <<docStore, trie, lastInitialized>>
       ELSE /\ vocabulary' = lexiconFile
            /\ docStore' = docStoreFile
            /\ trie' = DOMAIN lexiconFile
            /\ lastInitialized' = now
    /\ UNCHANGED <<disk, invertedIndexCache, semanticModel, searchResponse, searches,
                   generations, scoring, grouping, client, now>>

Next ==
    \/ \E query \in Queries : Search(query)
    \/ \E b \in 1..Len(Batches) : Submit(b)
    \/ \E j \in 1..MaxJobs : WorkerLoadLexicon(j)
    \/ \E j \in 1..MaxJobs : WorkerLoadDocStore(j)
    \/ \E j \in 1..MaxJobs : WorkerLoadForwardIndex(j)
    \/ \E j \in 1..MaxJobs : WorkerLoadBarrel(j)
    \/ \E j \in 1..MaxJobs : WorkerSaveBarrel(j)
    \/ \E j \in 1..MaxJobs : WorkerSaveLexicon(j)
    \/ \E j \in 1..MaxJobs : WorkerSaveDocStore(j)
    \/ \E j \in 1..MaxJobs : WorkerSaveForwardIndex(j)
    \/ \E j \in 1..MaxJobs, outcome \in ReloadOutcomes : OnMessage(j, outcome)

Spec == Init /\ [][Next]_vars

\* A client that submits a batch only when no job is running.
Complete(j) == jobs[j].pc \in {"posted", "settled"}

InFlight == {j \in 1..Len(jobs) : ~Complete(j)}

SubmitWhenIdle(b) == InFlight = {} /\ Submit(b)

NextSequential ==
    \/ \E query \in Queries : Search(query)
    \/ \E b \in 1..Len(Batches) : SubmitWhenIdle(b)
    \/ \E j \in 1..MaxJobs : WorkerLoadLexicon(j)
    \/ \E j \in 1..MaxJobs : WorkerLoadDocStore(j)
    \/ \E j \in 1..MaxJobs : WorkerLoadForwardIndex(j)
    \/ \E j \in 1..MaxJobs : WorkerLoadBarrel(j)
    \/ \E j \in 1..MaxJobs : WorkerSaveBarrel(j)
    \/ \E j \in 1..MaxJobs : WorkerSaveLexicon(j)
    \/ \E j \in 1..MaxJobs : WorkerSaveDocStore(j)
    \/ \E j \in 1..MaxJobs : WorkerSaveForwardIndex(j)
    \/ \E j \in 1..MaxJobs, outcome \in ReloadOutcomes : OnMessage(j, outcome)

SpecSequential == Init /\ [][NextSequential]_vars

\* The serving process alone, from its start: queries while and after the
\* semantic model loads, no indexing job.
StartupQueries ==
    Queries \cup { <<"zzz">>, <<"deep", "zzz">>, <<"car", "safety">>, <<"car">>,
                   <<"auto", "safety">>, <<"the", "of">>, <<"safety", "learning">> }

StartupPrefixes == {"de", "car s"}

NextServing ==
    \/ SemanticLoaded
    \/ \E query \in StartupQueries : Search(query)
    \/ \E q \in StartupPrefixes : Autocomplete(q)

SpecServing == InitLoading /\ [][NextServing]_vars

\* The results page of the frontend over the serving process: a search
\* shows page 1, "load more" appends the next page while hasMore is set.
\* The frontend asks for RESULTS_PER_PAGE results; the route takes any limit.
MaxPage == 3
MaxLimit == 3

PagingQueries ==
    { <<"deep", "learning">>, <<"car", "safety">>, <<"deep", "zzz">>, <<"zzz">>,
      <<"the", "of">> }

handleSearch(query, limit) ==
    /\ Fetch(query, 1, limit)
    /\ pager' = [searchQuery |-> query, limit |-> limit, currentPage |-> 1,
                 results |-> searchResponse'.body.results,
                 hasMore |-> searchResponse'.body.hasMore,
                 totalResults |-> searchResponse'.body.totalResults]
    /\ UNCHANGED <<disk, vocabulary, docStore, trie, semanticModel, jobs, searches,
                   generations, scoring, grouping, autocompleteResponse, trieCall, synonymsCall, clock>>

handleLoadMore ==
    /\ pager.hasMore
    /\ Fetch(pager.searchQuery, pager.currentPage + 1, pager.limit)
    /\ pager' = [pager EXCEPT !.currentPage = pager.currentPage + 1,
                              !.results = pager.results \o searchResponse'.body.results,
                              !.hasMore = searchResponse'.body.hasMore,
                              !.totalResults = searchResponse'.body.totalResults]
    /\ UNCHANGED <<disk, vocabulary, docStore, trie, semanticModel, jobs, searches,
                   generations, scoring, grouping, autocompleteResponse, trieCall, synonymsCall, clock>>

NextPaging ==
    \/ \E query \in PagingQueries, page \in 1..MaxPage, limit \in 1..MaxLimit :
           SearchPaged(query, page, limit)
    \/ \E query \in PagingQueries, limit \in 1..MaxLimit : handleSearch(query, limit)
    \/ handleLoadMore

SpecPaging == Init /\ [][NextPaging]_vars

\* The search box over a serving process that ingests one batch at a time.
AutocompleteQueries ==
    {"", "f", "fa", "fh", "de", "Deep L", "deep ", "q", "quantum te", "te", "zz",
     "learning", "car s", " ", "x1"}

NextAutocomplete ==
    \/ \E q \in AutocompleteQueries : Autocomplete(q)
    \/ \E b \in 1..Len(Batches) : SubmitWhenIdle(b)
    \/ \E j \in 1..MaxJobs : WorkerLoadLexicon(j)
    \/ \E j \in 1..MaxJobs : WorkerLoadDocStore(j)
    \/ \E j \in 1..MaxJobs : WorkerLoadForwardIndex(j)
    \/ \E j \in 1..MaxJobs : WorkerLoadBarrel(j)
    \/ \E j \in 1..MaxJobs : WorkerSaveBarrel(j)
    \/ \E j \in 1..MaxJobs : WorkerSaveLexicon(j)
    \/ \E j \in 1..MaxJobs : WorkerSaveDocStore(j)
    \/ \E j \in 1..MaxJobs : WorkerSaveForwardIndex(j)
    \/ \E j \in 1..MaxJobs, outcome \in ReloadOutcomes : OnMessage(j, outcome)

SpecAutocomplete == Init /\ [][NextAutocomplete]_vars

\* The search box over a serving process whose route starts a worker for
\* every submission.
SuggestQueries == {"qu", "ten", "de"}

NextSuggest ==
    \/ \E q \in SuggestQueries : Autocomplete(q)
    \/ \E b \in 1..Len(Batches) : Submit(b)
    \/ \E j \in 1..MaxJobs : WorkerLoadLexicon(j)
    \/ \E j \in 1..MaxJobs : WorkerLoadDocStore(j)
    \/ \E j \in 1..MaxJobs : WorkerLoadForwardIndex(j)
    \/ \E j \in 1..MaxJobs : WorkerLoadBarrel(j)
    \/ \E j \in 1..MaxJobs : WorkerSaveBarrel(j)
    \/ \E j \in 1..MaxJobs : WorkerSaveLexicon(j)
    \/ \E j \in 1..MaxJobs : WorkerSaveDocStore(j)
    \/ \E j \in 1..MaxJobs : WorkerSaveForwardIndex(j)
    \/ \E j \in 1..MaxJobs, outcome \in ReloadOutcomes : OnMessage(j, outcome)

SpecSuggest == Init /\ [][NextSuggest]_vars

\* The events of a worker other than its message.  'error': the worker
\* dies of an uncaught error before it posts; the promise is rejected and
\* the route's catch logs.
Running(j) == j \in 1..Len(jobs) /\ jobs[j].pc \notin {"posted", "settled", "exited"}

Ended(job, pc, status) ==
    [NewJob(job.batch) EXCEPT !.pc = pc, !.status = status, !.promise = job.promise,
                              !.submittedAt = job.submittedAt, !.reloaded = job.reloaded,
                              !.indexedCount = job.indexedCount]

OnErrorLogsOnly(j) ==
    /\ Running(j)
    /\ jobs' = [jobs EXCEPT ![j] = Ended(jobs[j], "settled", "crashed")]
    /\ UNCHANGED <<disk, serving, searchResponse, searches, generations, scoring, grouping, client,
                   clock>>

OnError(j) ==
    /\ Running(j)
    /\ jobs' = [jobs EXCEPT ![j] = [Ended(jobs[j], "settled", "crashed")
                                       EXCEPT !.promise = "rejected"]]
    /\ UNCHANGED <<disk, serving, searchResponse, searches, generations, scoring, grouping, client,
                   clock>>

\* 'exit', the last event of a worker: code 0 after its message, 1 after an
\* uncaught error, and a code other than 0 when the thread is ended without
\* either.  The handler logs a code other than 0 and does nothing else.
ExitCodes == {0, 1}

OnExit(j, code) ==
    /\ j \in 1..Len(jobs)
    /\ \/ jobs[j].pc = "settled" /\ code = (IF jobs[j].status = "crashed" THEN 1 ELSE 0)
       \/ Running(j) /\ code # 0
    /\ jobs' = [jobs EXCEPT ![j] =
           Ended(jobs[j], "exited",
                 IF Running(j) THEN "aborted" ELSE jobs[j].status)]
    /\ UNCHANGED <<disk, serving, searchResponse, searches, generations, scoring, grouping, client,
                   clock>>

NextFaults ==
    \/ \E b \in 1..Len(AllBatches) : Submit(b)
    \/ \E j \in 1..MaxJobs : WorkerLoadLexicon(j)
    \/ \E j \in 1..MaxJobs : WorkerLoadDocStore(j)
    \/ \E j \in 1..MaxJobs : WorkerLoadForwardIndex(j)
    \/ \E j \in 1..MaxJobs : WorkerLoadBarrel(j)
    \/ \E j \in 1..MaxJobs : WorkerSaveBarrel(j)
    \/ \E j \in 1..MaxJobs : WorkerSaveLexicon(j)
    \/ \E j \in 1..MaxJobs : WorkerSaveDocStore(j)
    \/ \E j \in 1..MaxJobs : WorkerSaveForwardIndex(j)
    \/ \E j \in 1..MaxJobs, outcome \in ReloadOutcomes : OnMessage(j, outcome)
    \/ \E j \in 1..MaxJobs : OnError(j)
    \/ \E j \in 1..MaxJobs, code \in ExitCodes : OnExit(j, code)

SpecFaults == Init /\ [][NextFaults]_vars

\* Time passes: Date.now() grows.  A submission records the time at which
\* it is accepted, a completed reload records the time in lastInitialized.
MaxTime == 2

Tick ==
    /\ now < MaxTime
    /\ now' = now + 1
    /\ UNCHANGED <<disk, serving, jobs, searchResponse, searches, generations, scoring, grouping,
                   client, lastInitialized>>

NextSignal ==
    \/ Tick
    \/ \E b \in 1..Len(Batches) : Submit(b)
    \/ \E j \in 1..MaxJobs : WorkerLoadLexicon(j)
    \/ \E j \in 1..MaxJobs : WorkerLoadDocStore(j)
    \/ \E j \in 1..MaxJobs : WorkerLoadForwardIndex(j)
    \/ \E j \in 1..MaxJobs : WorkerLoadBarrel(j)
    \/ \E j \in 1..MaxJobs : WorkerSaveBarrel(j)
    \/ \E j \in 1..MaxJobs : WorkerSaveLexicon(j)
    \/ \E j \in 1..MaxJobs : WorkerSaveDocStore(j)
    \/ \E j \in 1..MaxJobs : WorkerSaveForwardIndex(j)
    \/ \E j \in 1..MaxJobs, outcome \in ReloadOutcomes : OnMessage(j, outcome)

SpecSignal == Init /\ [][NextSignal]_vars

\* Jobs run one at a time on any batch of the catalogue, each followed by
\* its reload, and queries for words of the batches.
IngestQueries == { <<"lattice">>, <<"lattice", "neural">>, <<"graph">> }

NextIngest ==
    \/ \E query \in IngestQueries : Search(query)
    \/ \E b \in 1..Len(IngestBatches) : SubmitWhenIdle(b)
    \/ \E j \in 1..MaxJobs : WorkerLoadLexicon(j)
    \/ \E j \in 1..MaxJobs : WorkerLoadDocStore(j)
    \/ \E j \in 1..MaxJobs : WorkerLoadForwardIndex(j)
    \/ \E j \in 1..MaxJobs : WorkerLoadBarrel(j)
    \/ \E j \in 1..MaxJobs : WorkerSaveBarrel(j)
    \/ \E j \in 1..MaxJobs : WorkerSaveLexicon(j)
    \/ \E j \in 1..MaxJobs : WorkerSaveDocStore(j)
    \/ \E j \in 1..MaxJobs : WorkerSaveForwardIndex(j)
    \/ \E j \in 1..MaxJobs, outcome \in ReloadOutcomes : OnMessage(j, outcome)

SpecIngest == Init /\ [][NextIngest]_vars

\* Jobs one at a time on the batches that carry a numeric id or repeat an
\* id: Batches[2], the batch with e5 twice and RewriteBatches[1].
ResubmittedBatches == {2, Len(IngestBatches), Len(IngestBatches) + 1}

NextResubmit ==
    \/ \E query \in IngestQueries : Search(query)
    \/ \E b \in ResubmittedBatches : SubmitWhenIdle(b)
    \/ \E j \in 1..MaxJobs : WorkerLoadLexicon(j)
    \/ \E j \in 1..MaxJobs : WorkerLoadDocStore(j)
    \/ \E j \in 1..MaxJobs : WorkerLoadForwardIndex(j)
    \/ \E j \in 1..MaxJobs : WorkerLoadBarrel(j)
    \/ \E j \in 1..MaxJobs : WorkerSaveBarrel(j)
    \/ \E j \in 1..MaxJobs : WorkerSaveLexicon(j)
    \/ \E j \in 1..MaxJobs : WorkerSaveDocStore(j)
    \/ \E j \in 1..MaxJobs : WorkerSaveForwardIndex(j)
    \/ \E j \in 1..MaxJobs, outcome \in ReloadOutcomes : OnMessage(j, outcome)

SpecResubmit == Init /\ [][NextResubmit]_vars

\* The SemanticModel class alone: a model that is not loaded, or loaded
\* from a file that lists "car", then the words near it in any order, then
\* "far", and calls of findSynonyms on it.
SynonymVectors ==
    [w \in {"car", "auto", "cab", "van", "bus", "far"} |->
        CASE w = "car" -> <<1, 0>>
          [] w = "auto" -> <<2, 0>>
          [] w = "cab" -> <<3, 0>>
          [] w = "van" -> <<4, 1>>
          [] w = "bus" -> <<4, 2>>
          [] w = "far" -> <<3, 4>>]

SynonymOrders ==
    {<<"car">> \o v \o <<"far">> :
        v \in {w \in [1..4 -> {"auto", "cab", "van", "bus"}] :
                  \A i, k \in 1..4 : i # k => w[i] # w[k]}}

SynonymModels ==
    {SemanticUnloaded} \cup
    {[isLoaded |-> TRUE, vocab |-> vocab, vectors |-> SynonymVectors] :
        vocab \in SynonymOrders}

InitSynonyms ==
    /\ Started
    /\ semanticModel \in SynonymModels
    /\ scoring = NoScoring
    /\ grouping = NoGrouping

CallFindSynonyms(inputWord) ==
    /\ synonymsCall' = [inputWord |-> inputWord, called |-> TRUE,
                        result |-> findSynonyms(semanticModel, inputWord)]
    /\ UNCHANGED <<disk, serving, jobs, searchResponse, searches, generations, scoring, grouping,
                   autocompleteResponse, trieCall, pager, clock>>

NextSynonyms == \E inputWord \in DOMAIN SynonymVectors \cup {"sky"} : CallFindSynonyms(inputWord)

SpecSynonyms == InitSynonyms /\ [][NextSynonyms]_vars

\* The Trie class alone: a trie built by insert() from any subset of
\* TrieWords, and calls of autocomplete(prefix, limit) on it, the limit
\* being a number or Infinity.
MaxTrieLimit == 2
TrieWords == {"a", "ab", "abc", "abd", "abcd", "b", "bcd", "bce"}
TriePrefixes == {"", "a", "ab", "abc", "abcde", "b", "bc", "c"}

InsertAll(words) ==
    /\ ~trieCall.called
    /\ trieCall.words = {}
    /\ trieCall' = [trieCall EXCEPT !.words = words]
    /\ UNCHANGED <<disk, serving, jobs, searchResponse, searches, generations, scoring, grouping,
                   autocompleteResponse, pager, synonymsCall, clock>>

CallTrie(prefix, limit) ==
    /\ trieCall' = [trieCall EXCEPT
                       !.prefix = prefix, !.limit = limit, !.called = TRUE,
                       !.results = TrieAutocomplete(trieCall.words, prefix, limit)]
    /\ UNCHANGED <<disk, serving, jobs, searchResponse, searches, generations, scoring, grouping,
                   autocompleteResponse, pager, synonymsCall, clock>>

NextTrie ==
    \/ \E words \in SUBSET TrieWords : InsertAll(words)
    \/ \E prefix \in TriePrefixes,
          limit \in {<<>>} \cup {<<n>> : n \in 1..MaxTrieLimit} : CallTrie(prefix, limit)

SpecTrie == Init /\ [][NextTrie]_vars

\* Step 4 of executeSearch alone, for one term group: the query token and
\* up to two synonyms, over posting lists of one or two postings.  A
\* posting of word w at index k of its list has its hit at position
\* 10 * id(w) + k.
MaxGroupPostings == 2
GroupDocIds == {"d1", "d2"}

GroupVocabulary ==
    [word \in {"car", "auto", "cab"} |->
        CASE word = "car" -> 1 [] word = "auto" -> 2 [] OTHER -> 3]

TermGroups ==
    { <<"car">>, <<"car", "auto">>, <<"car", "auto", "cab">>, <<"car", "cab", "auto">>,
      <<"sky">> }

PostingListsOf(wordId) ==
    UNION {{[k \in 1..n |-> Posting(docIds[k], <<Hit(10 * wordId + k, 1)>>)] :
               docIds \in [1..n -> GroupDocIds]} : n \in 1..MaxGroupPostings}

GroupLoadedPostings ==
    UNION {{f \in [ids -> UNION {PostingListsOf(id) : id \in ids}] :
               \A id \in ids : f[id] \in PostingListsOf(id)} :
           ids \in SUBSET {GroupVocabulary[word] : word \in DOMAIN GroupVocabulary}}

InitGroups ==
    /\ Started
    /\ semanticModel = SemanticLoad(DOMAIN InitLexicon)
    /\ scoring = NoScoring
    /\ grouping \in {[words |-> words, loadedPostings |-> loadedPostings,
                       result |-> <<>>, called |-> FALSE] :
                         words \in TermGroups, loadedPostings \in GroupLoadedPostings}

CallGroupDocs ==
    /\ ~grouping.called
    /\ grouping' = [grouping EXCEPT
           !.called = TRUE,
           !.result = BuildGroupDocs(<<grouping.words[1]>>, <<grouping.words>>,
                                     GroupVocabulary, grouping.loadedPostings)[1]]
    /\ UNCHANGED <<disk, serving, jobs, searchResponse, searches, generations, scoring,
                   client, clock>>

NextGroups == CallGroupDocs

SpecGroups == InitGroups /\ [][NextGroups]_vars

\* Step 6 of executeSearch alone: the candidates are drawn from postings
\* with hits at the positions and of the field types below.
MaxCandidatePostings == 2
ScorePositions == {0, 499, 501}

CandidateHitLists ==
    {<<Hit(pos, type)>> : pos \in ScorePositions, type \in 1..5}
        \cup {<<Hit(1, type), Hit(600, 2)>> : type \in {1, 3}}

CandidatePostings ==
    {[docId |-> "d1", hits |-> hits, isExact |-> isExact] :
        hits \in CandidateHitLists, isExact \in BOOLEAN}

CandidateArrays ==
    UNION {[1..n -> CandidatePostings] : n \in 1..MaxCandidatePostings}

InitScoring ==
    /\ Started
    /\ semanticModel = SemanticLoad(DOMAIN InitLexicon)
    /\ grouping = NoGrouping
    /\ scoring \in {[docId |-> "d1", postingsArr |-> postingsArr,
                      queryTokens |-> [k \in 1..Len(postingsArr) |-> "deep"],
                      result |-> <<>>] : postingsArr \in CandidateArrays}

Score ==
    /\ scoring.postingsArr # <<>>
    /\ scoring.result = <<>>
    /\ scoring' = [scoring EXCEPT !.result =
           <<ScoreCandidate(scoring.docId, scoring.postingsArr, scoring.queryTokens)>>]
    /\ UNCHANGED <<disk, serving, jobs, searchResponse, searches, generations, grouping,
                   client, clock>>

NextScoring == Score

SpecScoring == InitScoring /\ [][NextScoring]_vars

\* ------------------------------------------------------------------------
\* Claims
\* ------------------------------------------------------------------------

\* C1: idempotent ingest.  When a batch is submitted again after a job on
\* the same batch has run to completion, and no other job is running, the
\* second job changes none of lexicon.json, docStore.json,
\* forwardIndex.json and the barrel files, and it indexes 0 documents.
\* Checked under SpecSequential, where a batch is submitted only when no
\* job is running.
IsRerun(j) ==
    \E i \in 1..(j - 1) : jobs[i].batch = jobs[j].batch /\ jobs[i].status = "success"

C1_RerunLeavesIndexUnchanged ==
    [][\A j \in 1..Len(jobs) :
          IsRerun(j) => /\ disk' = disk
                        /\ jobs'[j].indexedCount = 0]_vars

\* C2: round trip.  Once every job has settled and the serving process
\* holds what is on disk (the reload has completed), a search for a token
\* that occurs only in ingested documents returns exactly the IDs of the
\* ingested documents that contain it, whatever barrels were cached before.
ResultIds(body) == {body.results[i].docId : i \in 1..Len(body.results)}

ArticleTokens(article) ==
    Range(article.title) \cup Range(article.abstract) \cup Range(article.categories)
        \cup Range(article.authors) \cup Range(article.submitter)

IngestedArticles ==
    UNION {Range(Batches[jobs[j].batch]) : j \in {i \in 1..Len(jobs) : Complete(i)}}

IngestedWith(token) ==
    {article.id : article \in {a \in IngestedArticles : token \in ArticleTokens(a)}}

ReloadComplete ==
    /\ Len(jobs) > 0
    /\ \A j \in 1..Len(jobs) : jobs[j].pc = "settled" /\ jobs[j].status = "success"
    /\ vocabulary = lexiconFile
    /\ docStore = docStoreFile
    /\ trie = DOMAIN lexiconFile

C2_RoundTripAfterReload ==
    [][\A query \in Queries :
          (/\ ReloadComplete
           /\ Len(query) = 1
           /\ query[1] \notin DOMAIN InitLexicon
           /\ IngestedWith(query[1]) # {}
           /\ Search(query))
          => ResultIds(searchResponse'.body) = IngestedWith(query[1])]_vars

\* C3: single writer.  At most one indexing job is in flight at any time.
C3_SingleWriter == Cardinality(InFlight) <= 1

\* C4: reads during ingest.  While the first job is in flight, or has
\* finished and is not yet reloaded, a query returns the result list it
\* returns on the index of before the job.
PreIngestResults(query) ==
    search(query, DefaultPage, DefaultLimit, vocabulary, docStore, semanticModel,
           EmptyMap, InitBarrels).results

C4_QueriesSeePreIngestState ==
    [][\A query \in Queries :
          (Len(jobs) = 1 /\ jobs[1].pc # "settled" /\ Search(query))
          => searchResponse'.body.results = PreIngestResults(query)]_vars

\* C5: atomic reload.  In every state the lexicon, the document store and
\* the trie of the serving process are those of one persisted generation.
C5_ReloadIsAtomic ==
    \E g \in generations :
        /\ vocabulary = g.lexicon
        /\ docStore = g.docStore
        /\ trie = DOMAIN g.lexicon

\* C6: every docId of a page returned by search is a key of the document
\* store of the serving process, so the result carries its metadata.
C6_ResultsAreInDocStore ==
    searchResponse.status = 200 =>
        \A i \in 1..Len(searchResponse.body.results) :
            searchResponse.body.results[i].metadata # <<>>

\* C7: barrel partition.  Every WordID that is a key of barrel file i
\* satisfies wordID mod NUM_BARRELS = i, and the query engine loads, for
\* the WordID of each word of the lexicon, that barrel and no other.
C7_BarrelPartition ==
    /\ \A i \in DOMAIN barrelFiles :
           \A wordId \in DOMAIN barrelFiles[i] : wordId % NUM_BARRELS = i
    /\ \A word \in DOMAIN vocabulary :
           BarrelsToLoad(<<vocabulary[word]>>) = <<vocabulary[word] % NUM_BARRELS>>

\* C7 witness: after an ingest, barrel 1 holds WordID 65 and the new barrel
\* file 0 holds WordID 64, and the serving process has reloaded the lexicon.
C7_Witness ==
    /\ 0 \in DOMAIN barrelFiles /\ 64 \in DOMAIN barrelFiles[0]
    /\ 65 \in DOMAIN barrelFiles[1]
    /\ "tensor" \in DOMAIN vocabulary /\ vocabulary["tensor"] = 65

\* C8: conjunction across groups.  A search whose query has tokens returns
\* exactly the documents that have, for every token, a posting for the
\* token or for one of its synonyms; and when some token matches no
\* document, totalResults is 0.  Checked under SpecServing.
GroupWords(token) == {token} \cup Range(findSynonyms(semanticModel, token))

PostingsOf(word) ==
    IF word \in DOMAIN vocabulary
           /\ (vocabulary[word] % NUM_BARRELS) \in DOMAIN barrelFiles
           /\ vocabulary[word] \in DOMAIN barrelFiles[vocabulary[word] % NUM_BARRELS]
        THEN barrelFiles[vocabulary[word] % NUM_BARRELS][vocabulary[word]]
        ELSE <<>>

DocsOfToken(token) ==
    UNION {{PostingsOf(word)[k].docId : k \in 1..Len(PostingsOf(word))} :
              word \in GroupWords(token)}

MatchingDocs(tokens) ==
    {docId \in UNION {DocsOfToken(tokens[i]) : i \in 1..Len(tokens)} :
        \A i \in 1..Len(tokens) : docId \in DocsOfToken(tokens[i])}

C8_ConjunctionAcrossGroups ==
    [][\A query \in StartupQueries :
          (tokenizeQuery(query) # <<>> /\ Search(query))
          => /\ ResultIds(searchResponse'.body) = MatchingDocs(tokenizeQuery(query))
             /\ (\E i \in 1..Len(tokenizeQuery(query)) :
                     DocsOfToken(tokenizeQuery(query)[i]) = {})
                 => searchResponse'.body.totalResults = <<0>>]_vars

\* C9: result ordering.  The results of a search are in descending order
\* of score, and results of equal score are in ascending order of docID.
\* Checked under SpecServing.
DocIdsAscending == <<"#7", "d0", "d1", "d2", "d3", "d4", "d5", "d6", "d7", "d8", "d9">>

DocIdRank(docId) == CHOOSE k \in 1..Len(DocIdsAscending) : DocIdsAscending[k] = docId

C9_SortedByScoreThenDocId ==
    searchResponse.status = 200 =>
        \A i, j \in 1..Len(searchResponse.body.results) :
            i < j =>
                \/ searchResponse.body.results[i].score > searchResponse.body.results[j].score
                \/ /\ searchResponse.body.results[i].score
                          = searchResponse.body.results[j].score
                   /\ DocIdRank(searchResponse.body.results[i].docId)
                          < DocIdRank(searchResponse.body.results[j].docId)

\* C10: scoring.  The score of a result, in hundredths, is the sum over its
\* postings of the field-weight sum of the hits (weights 1:5, 2:1, 3:3,
\* 4:1, 5:1) times 100 for an exact posting and 50 for a synonym posting,
\* plus, only when there is more than one posting, max(0, 500 - min(span,
\* 500)), span being max minus min over the hit positions of the postings.
\* Checked under SpecScoring.
HitsOfType(posting, type) ==
    Cardinality({h \in 1..Len(posting.hits) : posting.hits[h].type = type})

FieldWeightSum(posting) ==
    5 * HitsOfType(posting, 1) + 1 * HitsOfType(posting, 2) + 3 * HitsOfType(posting, 3)
        + 1 * HitsOfType(posting, 4) + 1 * HitsOfType(posting, 5)

PositionsOf(postingsArr) ==
    UNION {{postingsArr[k].hits[h].pos : h \in 1..Len(postingsArr[k].hits)} :
              k \in 1..Len(postingsArr)}

SpanOf(postingsArr) == SetMax(PositionsOf(postingsArr)) - SetMin(PositionsOf(postingsArr))

ExpectedBonus(postingsArr) ==
    IF Len(postingsArr) > 1
        THEN Max2(0, 500 - Min2(SpanOf(postingsArr), 500))
        ELSE 0

ExpectedScore(postingsArr) ==
    SumOver([k \in 1..Len(postingsArr) |->
                FieldWeightSum(postingsArr[k]) * (IF postingsArr[k].isExact THEN 100 ELSE 50)],
            Len(postingsArr))
        + ExpectedBonus(postingsArr)

C10_ScoreFormula ==
    scoring.result # <<>> =>
        scoring.result[1].score = ExpectedScore(scoring.postingsArr)

\* C10 witness: a scored candidate of two postings, one of them a synonym
\* posting, whose hits span more than 500 positions.
C10_Witness ==
    /\ scoring.result # <<>>
    /\ Len(scoring.postingsArr) = 2
    /\ scoring.postingsArr[1].isExact /\ ~scoring.postingsArr[2].isExact
    /\ SpanOf(scoring.postingsArr) > 500
    /\ scoring.result[1].score = ExpectedScore(scoring.postingsArr)
    /\ scoring.result[1].score > 0

\* C11: match type.  The matchType of a result is "Exact" when, for every
\* token of the query, the document has a posting of the token itself, and
\* "Semantic" otherwise.  Checked under SpecServing.
ExactDocs(token) == {PostingsOf(token)[k].docId : k \in 1..Len(PostingsOf(token))}

C11_MatchTypeExactIffAllGroupsExact ==
    [][\A query \in StartupQueries :
          Search(query) =>
              \A n \in 1..Len(searchResponse'.body.results) :
                  /\ searchResponse'.body.results[n].matchType \in {"Exact", "Semantic"}
                  /\ searchResponse'.body.results[n].matchType = "Exact"
                         <=> \A i \in 1..Len(tokenizeQuery(query)) :
                                 searchResponse'.body.results[n].docId
                                     \in ExactDocs(tokenizeQuery(query)[i])]_vars

\* C11 witness: a response that holds a result matched through the query
\* words alone and one matched through a synonym.
C11_Witness ==
    /\ searchResponse.status = 200
    /\ \E n \in 1..Len(searchResponse.body.results) :
           /\ searchResponse.body.results[n].matchType = "Exact"
           /\ \A i \in 1..Len(tokenizeQuery(searchResponse.query)) :
                  searchResponse.body.results[n].docId
                      \in ExactDocs(tokenizeQuery(searchResponse.query)[i])
    /\ \E n \in 1..Len(searchResponse.body.results) :
           /\ searchResponse.body.results[n].matchType = "Semantic"
           /\ \E i \in 1..Len(tokenizeQuery(searchResponse.query)) :
                  searchResponse.body.results[n].docId
                      \notin ExactDocs(tokenizeQuery(searchResponse.query)[i])

\* C12: totalResults.  For every query, page and limit the response of a
\* search carries totalResults equal to the length of the full ranked list
\* of the query (so the same number for every page and limit).  Checked
\* under SpecPaging, where the index does not change: the full list of a
\* query is the same in every state.
FullList(query) ==
    executeSearch(query, vocabulary, semanticModel, invertedIndexCache, barrelFiles).results

C12_TotalResultsIsFullLength ==
    searchResponse.status = 200
        => searchResponse.body.totalResults = <<Len(FullList(searchResponse.query))>>

\* C13: pagination.  A search for page and limit returns the elements of
\* the full ranked list at the indices from (page-1)*limit up to but not
\* including page*limit, with hasMore set exactly when page*limit is less
\* than the length of the full list; and the pages the frontend has put
\* together when hasMore is cleared are the full list.  Checked under
\* SpecPaging.
SameResult(enriched, raw) ==
    /\ enriched.docId = raw.docId
    /\ enriched.score = raw.score
    /\ enriched.matchType = raw.matchType

IsPageOf(body, full) ==
    /\ Len(body.results)
           = Max2(0, Min2(body.limit, Len(full) - (body.page - 1) * body.limit))
    /\ \A k \in 1..Len(body.results) :
           SameResult(body.results[k], full[(body.page - 1) * body.limit + k])
    /\ body.hasMore <=> body.page * body.limit < Len(full)

IsWholeList(results, full) ==
    /\ Len(results) = Len(full)
    /\ \A k \in 1..Len(full) : SameResult(results[k], full[k])

C13_Pagination ==
    /\ searchResponse.status = 200
           => IsPageOf(searchResponse.body, FullList(searchResponse.query))
    /\ (pager.currentPage >= 1 /\ ~pager.hasMore)
           => IsWholeList(pager.results, FullList(pager.searchQuery))

\* C13 witness: the frontend has put the three results of a query together
\* from three pages of one result each.
C13_Witness ==
    /\ pager.currentPage = 3
    /\ pager.limit = 1
    /\ ~pager.hasMore
    /\ Len(pager.results) = 3
    /\ IsWholeList(pager.results, FullList(pager.searchQuery))
    /\ searchResponse.body.page = 3

\* C14: empty pages.  A search whose query yields no token, or whose
\* tokens are all absent from the lexicon, returns results = [],
\* totalResults = 0 and hasMore = false, and tokens = [] when the query
\* yields no token.  Checked under SpecPaging.
NoKnownToken(query) ==
    \A i \in 1..Len(tokenizeQuery(query)) : tokenizeQuery(query)[i] \notin DOMAIN vocabulary

C14_EmptyPageForUnknownQuery ==
    (searchResponse.status = 200 /\ NoKnownToken(searchResponse.query))
        => /\ searchResponse.body.results = <<>>
           /\ searchResponse.body.totalResults = <<0>>
           /\ searchResponse.body.hasMore = FALSE
           /\ tokenizeQuery(searchResponse.query) = <<>>
                  => searchResponse.body.tokens = <<>>

\* C15: autocomplete.  With s the index of the last space of the lowercased
\* q (-1 when there is none), prefix the text after it and base the text up
\* to and including it: an empty prefix gives no suggestion; otherwise, of
\* the n tokens of length >= 3 in the trie that start with prefix, the
\* suggestions are base followed by each of the first min(10, n) in
\* lexicographic order.  Checked under SpecAutocomplete.
CharRank(ch) == IndexIn(Alphabet, ch)

RECURSIVE LexLess(_, _)
LexLess(a, b) ==
    IF a = "" THEN b # ""
    ELSE IF b = "" THEN FALSE
    ELSE IF Head(a) # Head(b) THEN CharRank(Head(a)) < CharRank(Head(b))
    ELSE LexLess(Tail(a), Tail(b))

Completions(prefix) ==
    {w \in trie : Len(w) >= 3 /\ StartsWith(w, prefix)}

SpacePositions(str) == {i \in 1..Len(str) : CharAt(str, i) = " "}

LastSpace(str) ==
    IF SpacePositions(str) = {} THEN 0
    ELSE CHOOSE i \in SpacePositions(str) : \A k \in SpacePositions(str) : k <= i

\* suggestions is base followed by each of the first min(10, n) completions
\* of prefix in lexicographic order: it has that length, its entries are
\* completions in strictly ascending order, and every completion that is
\* not an entry comes after the last entry.
IsFirstCompletions(suggestions, base, prefix) ==
    LET chosen == [k \in 1..Len(suggestions) |->
                      SubSeq(suggestions[k], Len(base) + 1, Len(suggestions[k]))]
    IN  /\ Len(suggestions) = Min2(10, Cardinality(Completions(prefix)))
        /\ \A k \in 1..Len(suggestions) :
               /\ StartsWith(suggestions[k], base)
               /\ chosen[k] \in Completions(prefix)
               /\ k > 1 => LexLess(chosen[k - 1], chosen[k])
        /\ \A w \in Completions(prefix) \ Range(chosen) :
               LexLess(chosen[Len(chosen)], w)

IsExpectedSuggestions(suggestions, lowered) ==
    IF LastSpace(lowered) = Len(lowered) THEN suggestions = <<>>
    ELSE IsFirstCompletions(suggestions, SubSeq(lowered, 1, LastSpace(lowered)),
                            SubSeq(lowered, LastSpace(lowered) + 1, Len(lowered)))

LongTokens(results) ==
    {results[k] : k \in {i \in 1..Len(results) : Len(results[i]) >= MIN_TOKEN_LENGTH}}

C16_AutocompleteMonotone ==
    (trieCall.called /\ trieCall.limit = <<>>) =>
        \A a \in TriePrefixes :
            StartsWith(trieCall.prefix, a) =>
                LongTokens(trieCall.results)
                    \subseteq LongTokens(TrieAutocomplete(trieCall.words, a, <<>>))

\* C16 witness: an unbounded call for "abc" on a trie with short and long
\* words returns abc and abcd, and the call for "a" returns more.
C16_Witness ==
    /\ trieCall.called /\ trieCall.limit = <<>> /\ trieCall.prefix = "abc"
    /\ trieCall.words = TrieWords
    /\ trieCall.results = <<"abc", "abcd">>
    /\ TrieAutocomplete(trieCall.words, "a", <<>>) = <<"a", "ab", "abc", "abcd", "abd">>

\* C17: NotInitialized.  A search or autocomplete call made before
\* initialize() has completed, the semantic model included, does not
\* return a result: whenever a response with status 200 has been sent,
\* the semantic model is loaded.  Checked under SpecServing, which starts
\* while initialize() awaits semanticModel.load.
C17_NoResultBeforeInitialized ==
    (searchResponse.status = 200 \/ autocompleteResponse.status = 200)
        => semanticModel.isLoaded

\* C18: worker failure leaves the serving state unchanged.  The step in
\* which a job fails (its promise is rejected, on a message with status
\* 'error' or on the worker's error event) changes none of the lexicon,
\* the document store, the trie, the shard cache and lastInitialized of the
\* serving process and starts no reload; and no other step of a job
\* changes them either, except the receipt of a success message.  Checked
\* under SpecFaults.
Rejects(j) == jobs[j].promise = "pending" /\ jobs'[j].promise = "rejected"

Resolves(j) == jobs[j].promise = "pending" /\ jobs'[j].promise = "resolved"

C18_FailureLeavesServingUnchanged ==
    [][/\ \A j \in 1..Len(jobs) :
              Rejects(j) => /\ serving' = serving
                            /\ lastInitialized' = lastInitialized
                            /\ ~jobs'[j].reloaded
       /\ (serving' # serving \/ lastInitialized' # lastInitialized)
              => \E j \in 1..Len(jobs) : Resolves(j)]_vars

\* C18 witness: one job has reported status 'error', the worker of another
\* has raised an error event, and the serving state is that of the start.
C18_Witness ==
    /\ \E j \in 1..Len(jobs) : jobs[j].status = "error" /\ jobs[j].promise = "rejected"
    /\ \E j \in 1..Len(jobs) : jobs[j].status = "crashed" /\ jobs[j].promise = "rejected"
    /\ vocabulary = InitLexicon /\ docStore = InitDocStore /\ trie = DOMAIN InitLexicon
    /\ invertedIndexCache = EmptyMap /\ lastInitialized = 0
    /\ lexiconFile # InitLexicon

\* C19: every job settles.  The promise of runIncrementalIndex resolves on
\* a success message and is rejected on an error message and on a worker
\* error; and once the worker has exited, with a code other than 0 and
\* without a message included, the promise is no longer pending.  Checked
\* under SpecFaults.
C19_ExitedJobIsSettled ==
    \A j \in 1..Len(jobs) :
        /\ jobs[j].pc = "exited" => jobs[j].promise # "pending"
        /\ jobs[j].promise = "resolved" => jobs[j].status = "success"
        /\ jobs[j].promise = "rejected" => jobs[j].status \in {"error", "crashed"}

\* C20: completion signal.  For a submission accepted at time t,
\* lastInitialized of the status is greater than t only once the job of
\* that submission has finished with success and the reload it triggers
\* has completed, other submissions being in flight or not.  Checked under
\* SpecSignal.
C20_SignalMeansOwnJobReloaded ==
    \A j \in 1..Len(jobs) :
        lastInitialized > jobs[j].submittedAt => jobs[j].reloaded

\* C21: bad input and partial success.  Every job that has finished has
\* status 'success', whatever elements without an ID (no id, a null
\* element) its batch holds; a document that throws during processing has
\* no forward-index entry; and every other document of the batch that has
\* an ID and a token to index is in the forward index and in the document
\* store.  Checked under SpecIngest.
Texts(article) ==
    <<article.title, article.abstract, article.categories, article.authors,
      article.submitter>>

HasId(article) == ~article.isNull /\ article.id # NoId

ThrowsInProcessing(article) == \E f \in 1..5 : Texts(article)[f] = NonString

HasIndexableToken(article) ==
    \E f \in 1..5 : \E i \in 1..Len(Texts(article)[f]) :
        Len(Texts(article)[f][i]) >= 3 /\ Texts(article)[f][i] \notin STOP_WORDS

ValidDocuments(batch) ==
    {batch[i] : i \in {k \in 1..Len(batch) :
        HasId(batch[k]) /\ ~ThrowsInProcessing(batch[k]) /\ HasIndexableToken(batch[k])}}

C21_BadInputIsDropped ==
    \A j \in 1..Len(jobs) :
        Complete(j) =>
            /\ jobs[j].status = "success"
            /\ \A article \in ValidDocuments(BatchCatalogue[jobs[j].batch]) :
                   /\ DocKey(article.id) \in DOMAIN forwardIndexFile
                   /\ DocKey(article.id) \in DOMAIN docStoreFile
            /\ \A i \in 1..Len(BatchCatalogue[jobs[j].batch]) :
                   (/\ HasId(BatchCatalogue[jobs[j].batch][i])
                    /\ ThrowsInProcessing(BatchCatalogue[jobs[j].batch][i]))
                   => DocKey(BatchCatalogue[jobs[j].batch][i].id)
                          \notin DOMAIN forwardIndexFile

\* C22: lexicon integrity.  With jobs run one at a time, the lexicon on
\* disk never maps two tokens to one WordID; a step never removes a token
\* or changes its WordID; and the tokens a step adds get IDs above every
\* ID present before, the least of them being the largest old ID plus 1.
\* Checked under SpecIngest.
WordIds(lexicon) == {lexicon[t] : t \in DOMAIN lexicon}

Injective(lexicon) ==
    \A t1, t2 \in DOMAIN lexicon : lexicon[t1] = lexicon[t2] => t1 = t2

LargestId(lexicon) ==
    CHOOSE n \in WordIds(lexicon) \cup {0} : \A m \in WordIds(lexicon) : m <= n

C22_LexiconIntegrity ==
    /\ [](Injective(lexiconFile))
    /\ [][/\ \A t \in DOMAIN lexiconFile :
                t \in DOMAIN lexiconFile' /\ lexiconFile'[t] = lexiconFile[t]
          /\ \A t \in DOMAIN lexiconFile' \ DOMAIN lexiconFile :
                lexiconFile'[t] > LargestId(lexiconFile)
          /\ DOMAIN lexiconFile' # DOMAIN lexiconFile =>
                \E t \in DOMAIN lexiconFile' \ DOMAIN lexiconFile :
                    lexiconFile'[t] = LargestId(lexiconFile) + 1]_vars

\* C22 witness: two jobs have interned tokens one after the other; the
\* tokens of the second follow those of the first, and a token interned
\* by a document that was then skipped keeps its ID.
C22_Witness ==
    /\ Len(jobs) = 2 /\ jobs[1].batch = 6 /\ jobs[2].batch = 1
    /\ jobs[2].pc = "settled"
    /\ lexiconFile["lattice"] = LargestId(InitLexicon) + 1
    /\ lexiconFile["sparse"] = LargestId(InitLexicon) + 2
    /\ lexiconFile["matrix"] = LargestId(InitLexicon) + 3
    /\ lexiconFile["graph"] = LargestId(InitLexicon) + 4
    /\ lexiconFile["quantum"] = LargestId(InitLexicon) + 5
    /\ lexiconFile["neural"] = InitLexicon["neural"]

\* C23: a missing barrel file is an empty shard.  A search answers 200 with
\* the results it would return if every shard without a file had an empty
\* file; and when a job writes a shard that had no file, the new file holds
\* exactly the new postings of the job for that shard.  Checked under
\* SpecIngest.
WithEmptyShards(files) ==
    [i \in 0..(NUM_BARRELS - 1) |-> IF i \in DOMAIN files THEN files[i] ELSE <<>>]

HasMissingShard(query) ==
    \E i \in 1..Len(query) :
        /\ query[i] \in DOMAIN vocabulary
        /\ (vocabulary[query[i]] % NUM_BARRELS) \notin DOMAIN barrelFiles

C23_MissingShardIsEmpty ==
    [][/\ \A query \in IngestQueries :
              (searchResponse'.query = query /\ Search(query))
              => /\ searchResponse'.status = 200
                 /\ searchResponse'.body.results
                        = search(query, DefaultPage, DefaultLimit, vocabulary, docStore,
                                 semanticModel, invertedIndexCache,
                                 WithEmptyShards(barrelFiles)).results
                 /\ HasMissingShard(query) => searchResponse'.body.results = <<>>
       /\ \A i \in DOMAIN barrelFiles' \ DOMAIN barrelFiles :
              \E j \in 1..Len(jobs) :
                  /\ At(j, "saveBarrel")
                  /\ barrelFiles'[i] = jobs[j].processed.newPostingsByBarrel.maps[i]]_vars

\* C23 witness: the lexicon holds "lattice", interned by a document that
\* was then skipped, its shard has no file, and a search for "lattice
\* neural" has answered 200 with no result although "neural" has postings.
C23_Witness ==
    /\ "lattice" \in DOMAIN vocabulary
    /\ (vocabulary["lattice"] % NUM_BARRELS) \notin DOMAIN barrelFiles
    /\ PostingsOf("neural") # <<>>
    /\ searchResponse.status = 200
    /\ searchResponse.query = <<"lattice", "neural">>
    /\ searchResponse.body.results = <<>>
    /\ searchResponse.body.totalResults = <<0>>

\* C24: findSynonyms(token) returns the empty list when the model is not
\* loaded or the token has no vector; otherwise it returns at most
\* MAX_SYNONYMS loaded tokens other than the token, each of similarity at
\* least SIMILARITY_THRESHOLD, namely the first ones in descending order of
\* similarity, tokens of equal similarity in lexicographic order.  Checked
\* under SpecSynonyms.
SynonymCandidates(input) ==
    {w \in Range(semanticModel.vocab) :
        /\ w # input
        /\ SimilarityAtLeastThreshold(semanticModel.vectors[input], semanticModel.vectors[w])}

RanksBefore(input, a, b) ==
    \/ MoreSimilar(semanticModel.vectors[input], semanticModel.vectors[a],
                   semanticModel.vectors[b])
    \/ /\ ~MoreSimilar(semanticModel.vectors[input], semanticModel.vectors[b],
                       semanticModel.vectors[a])
       /\ LexLess(a, b)

IsTopSynonyms(result, input) ==
    /\ Len(result) = Min2(3, Cardinality(SynonymCandidates(input)))
    /\ \A k \in 1..Len(result) :
           /\ result[k] \in SynonymCandidates(input)
           /\ Cardinality({w \in SynonymCandidates(input) :
                              RanksBefore(input, w, result[k])}) = k - 1

C24_SynonymsAreTopRanked ==
    synonymsCall.called =>
        IF ~semanticModel.isLoaded \/ synonymsCall.inputWord \notin DOMAIN semanticModel.vectors
            THEN synonymsCall.result = <<>>
            ELSE IsTopSynonyms(synonymsCall.result, synonymsCall.inputWord)

\* C25: hit positions.  The forward-index entry of every indexed document
\* has hits exactly for the tokens of length >= 3 that are not stop words,
\* and the position of a hit is the index, from 0, of its token in the
\* stream of the tokens of title, abstract, categories, authors and
\* submitter in that order, its type the field of the token.  Checked under
\* SpecIngest, for the documents of the initial build and of the batches.
AllArticles ==
    Range(InitCorpus) \cup UNION {Range(IngestBatches[b]) : b \in 1..Len(IngestBatches)}

ArticleOf(key) ==
    CHOOSE article \in AllArticles : HasId(article) /\ DocKey(article.id) = key

TokenStream(article) ==
    LET texts == Texts(article)
    IN  [f \in 1..5 |-> [i \in 1..Len(texts[f]) |-> [token |-> texts[f][i], type |-> f]]]

Stream(article) ==
    TokenStream(article)[1] \o TokenStream(article)[2] \o TokenStream(article)[3]
        \o TokenStream(article)[4] \o TokenStream(article)[5]

IndexedAt(article) ==
    {i \in 1..Len(Stream(article)) :
        Len(Stream(article)[i].token) >= 3 /\ Stream(article)[i].token \notin STOP_WORDS}

HitsOfEntry(docEntry) ==
    UNION {{<<wordId, docEntry[wordId][h]>> : h \in 1..Len(docEntry[wordId])} :
              wordId \in DOMAIN docEntry}

C25_HitPositions ==
    \A key \in DOMAIN forwardIndexFile :
        /\ HitsOfEntry(forwardIndexFile[key])
               = {<<lexiconFile[Stream(ArticleOf(key))[i].token],
                    [pos |-> i - 1, type |-> Stream(ArticleOf(key))[i].type]>> :
                      i \in IndexedAt(ArticleOf(key))}
        /\ \A wordId \in DOMAIN forwardIndexFile[key] :
               \A h \in 1..(Len(forwardIndexFile[key][wordId]) - 1) :
                   forwardIndexFile[key][wordId][h].pos
                       < forwardIndexFile[key][wordId][h + 1].pos

\* C25 witness: e4, with title "the sparse of matrix", abstract "graph" and
\* submitter "neural", is indexed with matrix at 3, graph at 4 and neural
\* at 5; d3 of the initial build has learning at 3.
C25_Witness ==
    /\ "e4" \in DOMAIN forwardIndexFile
    /\ forwardIndexFile["e4"][lexiconFile["sparse"]] = <<[pos |-> 1, type |-> 1]>>
    /\ forwardIndexFile["e4"][lexiconFile["matrix"]] = <<[pos |-> 3, type |-> 1]>>
    /\ forwardIndexFile["e4"][lexiconFile["graph"]] = <<[pos |-> 4, type |-> 2]>>
    /\ forwardIndexFile["e4"][lexiconFile["neural"]] = <<[pos |-> 5, type |-> 5]>>
    /\ forwardIndexFile["d3"][lexiconFile["learning"]] = <<[pos |-> 3, type |-> 1]>>

\* C26: after any sequence of ingest jobs on any batches, a batch in which
\* one document ID occurs twice included, no posting list of any barrel has
\* two postings with the same docID.  Checked under SpecIngest.
NoDuplicateDocId(postings) ==
    \A h, k \in 1..Len(postings) : postings[h].docId = postings[k].docId => h = k

C26_NoDuplicatePostings ==
    \A i \in DOMAIN barrelFiles : \A wordId \in DOMAIN barrelFiles[i] :
        NoDuplicateDocId(barrelFiles[i][wordId])

\* C27: per-group candidate selection.  In the document set of one query
\* group every document with a posting under a word of the group has
\* exactly one posting and no other document has one; for a document
\* matched by the exact query word the posting kept is the exact word's,
\* with isExact set, and for a document matched only by synonyms it is the
\* posting of the first synonym in group order that has the document, with
\* isExact unset.  Checked under SpecGroups.
GroupPostings(word) ==
    IF word \in DOMAIN GroupVocabulary
           /\ GroupVocabulary[word] \in DOMAIN grouping.loadedPostings
        THEN grouping.loadedPostings[GroupVocabulary[word]] ELSE <<>>

MatchedBy(docId) ==
    {i \in 1..Len(grouping.words) :
        \E k \in 1..Len(GroupPostings(grouping.words[i])) :
            GroupPostings(grouping.words[i])[k].docId = docId}

FirstPostingOf(postings, docId) ==
    postings[SetMin({k \in 1..Len(postings) : postings[k].docId = docId})]

KeptPosting(docId) ==
    LET i == SetMin(MatchedBy(docId))
        posting == FirstPostingOf(GroupPostings(grouping.words[i]), docId)
    IN  [docId |-> docId, hits |-> posting.hits, isExact |-> i = 1]

C27_OnePostingPerDocument ==
    grouping.called =>
        /\ \A docId \in GroupDocIds :
               Cardinality({k \in 1..Len(grouping.result) :
                               grouping.result[k].docId = docId})
                   = IF MatchedBy(docId) = {} THEN 0 ELSE 1
        /\ \A k \in 1..Len(grouping.result) :
               /\ grouping.result[k].docId \in GroupDocIds
               /\ grouping.result[k] = KeptPosting(grouping.result[k].docId)
               /\ grouping.result[k].isExact
                      <=> 1 \in MatchedBy(grouping.result[k].docId)

\* C27 witness: for the group (car, cab, auto), d1 has postings under car
\* and auto and keeps the one of car, d2 has postings under cab and auto
\* only and keeps the one of cab.
C27_Witness ==
    /\ grouping.called
    /\ grouping.words = <<"car", "cab", "auto">>
    /\ MatchedBy("d1") = {1, 3}
    /\ MatchedBy("d2") = {2, 3}
    /\ grouping.result
          = << [docId |-> "d1", hits |-> <<Hit(11, 1)>>, isExact |-> TRUE],
               [docId |-> "d2", hits |-> <<Hit(31, 1)>>, isExact |-> FALSE] >>

\* C28: ingest is append-only.  No step of a job that runs alone removes or
\* changes a lexicon entry, a document record or a forward-index entry, and
\* for every word of every barrel the old posting list is a prefix of the
\* new one, the postings added being in the order of their documents in
\* the batch.  Checked under SpecResubmit.
IsPrefix(old, new) == Len(old) <= Len(new) /\ SubSeq(new, 1, Len(old)) = old

Kept(old, new) == \A k \in DOMAIN old : k \in DOMAIN new /\ new[k] = old[k]

InBatchOrder(postings, batch) ==
    \A p, q \in 1..Len(postings) :
        p < q => \E a, b \in 1..Len(batch) :
                     /\ a < b
                     /\ batch[a].id = postings[p].docId
                     /\ batch[b].id = postings[q].docId

AddedPostings(i, wordId) ==
    SubSeq(barrelFiles'[i][wordId],
           (IF i \in DOMAIN barrelFiles /\ wordId \in DOMAIN barrelFiles[i]
                THEN Len(barrelFiles[i][wordId]) ELSE 0) + 1,
           Len(barrelFiles'[i][wordId]))

AppendOnlyStep ==
    /\ Kept(lexiconFile, lexiconFile')
    /\ Kept(docStoreFile, docStoreFile')
    /\ Kept(forwardIndexFile, forwardIndexFile')
    /\ \A i \in DOMAIN barrelFiles :
           /\ i \in DOMAIN barrelFiles'
           /\ \A wordId \in DOMAIN barrelFiles[i] :
                  /\ wordId \in DOMAIN barrelFiles'[i]
                  /\ IsPrefix(barrelFiles[i][wordId], barrelFiles'[i][wordId])
    /\ barrelFiles' # barrelFiles
           => \E j \in 1..Len(jobs) :
                  /\ jobs[j].pc = "saveBarrel"
                  /\ \A i \in DOMAIN barrelFiles' : \A wordId \in DOMAIN barrelFiles'[i] :
                         InBatchOrder(AddedPostings(i, wordId), BatchCatalogue[jobs[j].batch])

C28_AppendOnly == [][AppendOnlyStep]_vars

\* C29: after any sequence of completed ingest jobs the barrels are the
\* inversion of the forward index: a posting with docID d and hits h is in
\* the posting list of word w iff the forward-index entry of d maps w to h;
\* and every docID with a forward-index entry is a key of the document
\* store.  Checked under SpecResubmit, in the states with no job in flight.
PostingIsInForwardIndex(wordId, posting) ==
    /\ DocKey(posting.docId) \in DOMAIN forwardIndexFile
    /\ wordId \in DOMAIN forwardIndexFile[DocKey(posting.docId)]
    /\ forwardIndexFile[DocKey(posting.docId)][wordId] = posting.hits

EntryIsInBarrels(key, wordId) ==
    /\ getBarrelIndex(wordId) \in DOMAIN barrelFiles
    /\ wordId \in DOMAIN barrelFiles[getBarrelIndex(wordId)]
    /\ \E k \in 1..Len(barrelFiles[getBarrelIndex(wordId)][wordId]) :
           /\ DocKey(barrelFiles[getBarrelIndex(wordId)][wordId][k].docId) = key
           /\ barrelFiles[getBarrelIndex(wordId)][wordId][k].hits
                  = forwardIndexFile[key][wordId]

C29_BarrelsInvertForwardIndex ==
    InFlight = {} =>
        /\ \A i \in DOMAIN barrelFiles : \A wordId \in DOMAIN barrelFiles[i] :
               \A k \in 1..Len(barrelFiles[i][wordId]) :
                   PostingIsInForwardIndex(wordId, barrelFiles[i][wordId][k])
        /\ \A key \in DOMAIN forwardIndexFile : \A wordId \in DOMAIN forwardIndexFile[key] :
               EntryIsInBarrels(key, wordId)
        /\ \A key \in DOMAIN forwardIndexFile : key \in DOMAIN docStoreFile

\* C30: whenever a reload returns successfully the words of the trie are
\* the keys of the lexicon in memory, and every indexable token of the
\* documents of the job that triggered the reload is offered by
\* autocomplete when it is typed; and the last word of every suggestion of
\* GET /autocomplete is a key of the lexicon in memory.  Checked under
\* SpecSuggest.
IndexedTokens(batch) ==
    UNION {{Stream(article)[i].token : i \in IndexedAt(article)} :
              article \in ValidDocuments(batch)}

LastWord(str) == SubSeq(str, LastSpace(str) + 1, Len(str))

ReloadReturns(j) == jobs[j].pc = "posted" /\ jobs'[j].reloaded

TrieIsLexiconAfterReload ==
    \A j \in 1..Len(jobs) :
        ReloadReturns(j) => trie' = DOMAIN vocabulary'

InternedTokensAreOffered ==
    \A j \in 1..Len(jobs) :
        ReloadReturns(j) =>
            \A token \in IndexedTokens(BatchCatalogue[jobs[j].batch]) :
                token \in Range(autocomplete(trie', token))

SuggestionsAreLexiconKeys ==
    \A q \in SuggestQueries :
        (autocompleteResponse'.query = q /\ Autocomplete(q))
        => \A k \in 1..Len(autocompleteResponse'.suggestions) :
               LastWord(autocompleteResponse'.suggestions[k]) \in DOMAIN vocabulary

C30_TrieIsLexicon ==
    [][TrieIsLexiconAfterReload /\ InternedTokensAreOffered
          /\ SuggestionsAreLexiconKeys]_vars

====
